---- MODULE Spec2Model ----
(***************************************************************************)
(* Model of the mission runtime of openagent (src/api/mission_runner.rs):  *)
(* the per-mission MissionRunner state machine (queue_message, start_next, *)
(* cancel, poll_completion) together with the turn task that start_next    *)
(* spawns (run_mission_turn and the two backend adapters, followed at      *)
(* their await points), the health check of the runner, the               *)
(* complete_mission tool with the Mission Control channel                  *)
(* (src/tools/mission.rs) and the mission workspace directories            *)
(* (src/workspace.rs).                                                     *)
(***************************************************************************)
EXTENDS Integers, Sequences, FiniteSets, TLC

(* ------------------------------ bounds -------------------------------- *)

\* number of queue_message calls explored
MaxMsgs == 2

\* number of non-terminal stdout lines / chunks one turn reads
MaxLines == 1

(* ------------------------------ values -------------------------------- *)

None == "None"

\* Option::None of the cancel_token and running_handle fields; tokens and
\* task handles are numbered from 1
NoToken == 0
NoHandle == 0

\* the content the caller passes to queue_message with the message id `id`
Contents == << <<"hello">>, <<"then", "build">>, <<"more">>, <<"1.", "go">> >>
ContentOf(id) == Contents[((id - 1) % Len(Contents)) + 1]

\* backend ids a runner can be constructed with ("other" is an unsupported id)
Backends == {"claudecode", "opencode", "other"}

\* Strings are sequences of tokens; a token stands for a piece of text, "\n"
\* for a line break, and the two sentinels poll_completion looks for are
\* tokens.
OutPlain == <<"ok">>
OutMarked == <<"Mission marked as", "completed">>
OutToolName == <<"called", "complete_mission">>
Outputs == {OutPlain, OutMarked, OutToolName}

\* the result text of a Claude Result event that reports an error
ErrorTexts == {<<"error">>}

\* a result text of white space only
OutBlank == <<" ">>

\* the subtype field of a Claude Result event
Subtypes == {"success", "error"}

\* what one read of the OpenCode child's stdout can return
OpencodeChunks == {<<"ok", "\n">>, <<"Error:", "\n">>}

\* what the storage fallback can recover (<<>>: nothing)
StorageTexts == {<<>>, OutMarked}

VARIABLES
    state,                \* MissionRunner.state
    queue,                \* MissionRunner.queue
    history,              \* MissionRunner.history
    cancel_token,         \* MissionRunner.cancel_token (None or a token id)
    running_handle,       \* MissionRunner.running_handle (None or a task id)
    explicitly_completed, \* MissionRunner.explicitly_completed
    backend_id,           \* MissionRunner.backend_id
    tasks,                \* the spawned turn tasks that have not been joined
    tripped,              \* the cancellation tokens that have been cancelled
    events,               \* what was sent on events_tx since the last turn
                          \* started, in order
    nmsgs,                \* number of queue_message calls so far
    nturns,               \* number of turn tasks spawned so far
    last_activity,        \* MissionRunner.last_activity (a reading of the clock)
    deliverables,         \* MissionRunner.deliverables (the expected paths)
    mission_cmd,          \* the Mission Control channel: the commands waiting
                          \* in it and whether its receiver is alive
    delivered,            \* the commands the receiving end has taken, in order
    now,                  \* the monotonic clock, in ticks
    files,                \* the paths that exist in the filesystem
    args,                 \* the arguments of the function call under test
    locals,               \* the local variables of the adapter loop or of the
                          \* function under test
    started,              \* the message ids start_next started, in order
    returned,             \* the message ids poll_completion returned, in order
    last                  \* the last step: operation and return value

runner == <<state, queue, history, cancel_token, running_handle,
            explicitly_completed, backend_id, last_activity, deliverables>>

\* what lies outside the runner and its turn task
world == <<mission_cmd, delivered, now, files, args, locals>>

vars == <<state, queue, history, cancel_token, running_handle,
          explicitly_completed, backend_id, last_activity, deliverables,
          tasks, tripped, events, nmsgs, nturns, started, returned,
          mission_cmd, delivered, now, files, args, locals, last>>

(* --------------------------- AgentResult ------------------------------ *)

\* AgentResult::success(output, cost)
AgentResultSuccess(output) ==
    [success |-> TRUE, output |-> output, terminal_reason |-> "Completed"]

\* AgentResult::failure(output, cost).with_terminal_reason(reason)
AgentResultFailure(output, reason) ==
    [success |-> FALSE, output |-> output, terminal_reason |-> reason]

\* no function under test has been entered
NoLocals == [pc |-> "none"]

NoResult == [success |-> FALSE, output |-> <<>>, terminal_reason |-> None]

\* str::contains for a needle that is one token
Contains(output, needle) == \E i \in 1..Len(output) : output[i] = needle

(* --------------------------- MissionRunner ---------------------------- *)

is_running == state \in {"Running", "WaitingForTool"}

Ret(op, ok, val) == [op |-> op, ok |-> ok, val |-> val]

Init ==
    /\ state = "Queued"
    /\ queue = <<>>
    /\ history = <<>>
    /\ cancel_token = NoToken
    /\ running_handle = NoHandle
    /\ explicitly_completed = FALSE
    /\ backend_id \in Backends
    /\ last_activity = 0
    /\ deliverables = {}
    /\ mission_cmd = [buf |-> <<>>, rx_alive |-> TRUE]
    /\ delivered = <<>>
    /\ now = 0
    /\ files = {}
    /\ args = <<>>
    /\ locals = NoLocals
    /\ tasks = {}
    /\ tripped = {}
    /\ events = <<>>
    /\ nmsgs = 0
    /\ nturns = 0
    /\ started = <<>>
    /\ returned = <<>>
    /\ last = Ret("new", TRUE, <<>>)

\* MissionRunner.agent_override, and the agent override the caller passes to
\* queue_message with the message id `id`: the first message of a mission
\* names an agent, the later ones none
self_agent_override == <<"planner">>
AgentOf(id) == IF id = 1 THEN <<"builder">> ELSE <<>>

QueuedMessage(id, content, agent) ==
    [id |-> id, content |-> content, agent |-> agent]

\* the numbers of receivers the broadcast channel behind events_tx can have
\* at the moment of a send: none, one, several (receivers subscribe and
\* leave at any time; a receiver that lags loses the oldest events and does
\* not hold back the sender)
Receivers == {0, 1, 2}

\* broadcast::Sender::send with k receivers: an error when there is none,
\* else the number of receivers
events_tx_send(k, event) == [ok |-> k > 0, n |-> k]

\* `let _ = events_tx.send(..)`: the producer goes on whatever send returned
\* (the other definition goes on only when the send succeeded)
send_unwrapped(sent) == sent.ok
send_ignored(sent) == TRUE

QueueMessage ==
    /\ nmsgs < MaxMsgs
    /\ queue' = Append(queue, QueuedMessage(nmsgs + 1, ContentOf(nmsgs + 1),
                                          AgentOf(nmsgs + 1)))
    /\ nmsgs' = nmsgs + 1
    /\ last' = Ret("queue_message", TRUE, <<>>)
    /\ UNCHANGED <<state, history, cancel_token, running_handle,
                   explicitly_completed, backend_id, last_activity,
                   deliverables, tasks, tripped, events, nturns, started,
                   returned, world>>

Cancel ==
    /\ tripped' = IF cancel_token # NoToken THEN tripped \cup {cancel_token}
                  ELSE tripped
    /\ last' = Ret("cancel", TRUE, <<>>)
    /\ UNCHANGED <<runner, tasks, events, nmsgs, nturns, started, returned,
                   world>>

\* the early return of start_next ("Don't start if already running")
start_next_open == FALSE
start_next_blocked == is_running

\* VecDeque::pop_front on a non-empty queue
pop_back(q) == [msg |-> q[Len(q)], rest |-> SubSeq(q, 1, Len(q) - 1)]
pop_front(q) == [msg |-> Head(q), rest |-> Tail(q)]

\* MissionRunner.mission_id
self_mission_id == "mission-1"

\* the event start_next sends (the other definition marks it as queued)
UserMessageQueued(msg) ==
    [kind |-> "UserMessage", id |-> msg.id, content |-> msg.content,
     queued |-> TRUE, mission_id |-> self_mission_id]
UserMessage(msg) ==
    [kind |-> "UserMessage", id |-> msg.id, content |-> msg.content,
     queued |-> FALSE, mission_id |-> self_mission_id]

\* CancellationToken::new() of the turn numbered `id`: a token no earlier turn
\* holds (the other definition keeps the token that is already installed)
kept_token(id) == IF cancel_token # NoToken THEN cancel_token ELSE id
new_token(id) == id

\* the task tokio::spawn creates in start_next
NewTask(id, msg, token) ==
    [id |-> id, msg_id |-> msg.id, input |-> msg.content, token |-> token,
     agent_override |-> self_agent_override,
     pc |-> "prep", child |-> "none", had_error |-> FALSE,
     final_result |-> <<>>, nread |-> 0, result_event |-> <<>>,
     result |-> NoResult, tripped_at_return |-> FALSE]

StartNextTo(k) ==
    IF start_next_blocked \/ queue = <<>>
    THEN /\ last' = Ret("start_next", FALSE, <<>>)
         /\ UNCHANGED <<runner, tasks, tripped, events, nmsgs, nturns,
                        started, returned, world>>
    ELSE LET p == pop_front(queue)
             id == nturns + 1
         IN  /\ queue' = p.rest
             /\ state' = "Running"
             /\ cancel_token' = new_token(id)
             /\ send_ignored(events_tx_send(k, UserMessage(p.msg)))
             /\ events' = <<UserMessage(p.msg)>>
             /\ tasks' = tasks \cup {NewTask(id, p.msg, new_token(id))}
             /\ running_handle' = id
             /\ nturns' = id
             /\ started' = Append(started, p.msg.id)
             /\ last' = Ret("start_next", TRUE, <<>>)
             /\ UNCHANGED <<history, explicitly_completed, backend_id,
                            last_activity, deliverables, tripped, nmsgs,
                            returned, world>>

StartNext == \E k \in Receivers : StartNextTo(k)

\* the state poll_completion leaves after a collected turn / a join error
poll_ok_state == "Queued"
poll_err_queued == "Queued"
poll_err_running == "Running"
poll_err_state == "Finished"

\* the two pushes poll_completion makes
push_history_swapped(h, input, output) ==
    h \o << <<"assistant", output>>, <<"user", input>> >>
push_history(h, input, output) ==
    h \o << <<"user", input>>, <<"assistant", output>> >>

\* the sentinel test of poll_completion (the other definition looks for the
\* first sentinel only)
completion_marked_only(output) == Contains(output, "Mission marked as")
completion_observed(output) ==
    Contains(output, "Mission marked as") \/ Contains(output, "complete_mission")

TaskOf(h) == CHOOSE t \in tasks : t.id = h

PollCompletion ==
    IF running_handle = NoHandle
    THEN /\ last' = Ret("poll_completion", FALSE, <<>>)
         /\ UNCHANGED <<runner, tasks, tripped, events, nmsgs, nturns,
                        started, returned, world>>
    ELSE LET t == TaskOf(running_handle) IN
         IF t.pc = "done"
         THEN /\ last_activity' = now
              /\ state' = poll_ok_state
              /\ explicitly_completed' =
                     IF completion_observed(t.result.output) THEN TRUE
                     ELSE explicitly_completed
              /\ history' = push_history(history, t.input, t.result.output)
              /\ running_handle' = NoHandle
              /\ tasks' = tasks \ {t}
              /\ returned' = Append(returned, t.msg_id)
              /\ last' = Ret("poll_completion", TRUE,
                             <<t.msg_id, t.input, t.result>>)
              /\ UNCHANGED <<queue, cancel_token, backend_id, deliverables,
                             tripped, events, nmsgs, nturns, started, world>>
         ELSE IF t.pc = "panicked"
         THEN /\ state' = poll_err_state
              /\ running_handle' = NoHandle
              /\ tasks' = tasks \ {t}
              /\ last' = Ret("poll_completion", FALSE, <<>>)
              /\ UNCHANGED <<queue, history, cancel_token,
                             explicitly_completed, backend_id, last_activity,
                             deliverables, tripped, events, nmsgs, nturns,
                             started, returned, world>>
         ELSE /\ last' = Ret("poll_completion", FALSE, <<>>)
              /\ UNCHANGED <<runner, tasks, tripped, events, nmsgs, nturns,
                             started, returned, world>>

(* ----------------------------- turn task ------------------------------ *)

Replace(t, t2) == tasks' = (tasks \ {t}) \cup {t2}

\* the task returns `result`: its JoinHandle is finished from here on
Return(t, result) ==
    [t EXCEPT !.pc = "done", !.result = result,
              !.tripped_at_return = (t.token \in tripped)]

Thinking(content, done) ==
    [kind |-> "Thinking", content |-> content, done |-> done]

TaskFrame == <<runner, tripped, nmsgs, nturns, started, returned, world>>

\* run_mission_turn up to the spawn of the child: an unsupported backend id,
\* a CLI that is missing and cannot be installed, or a failed spawn return a
\* failure without reading the token
TurnPrepFail(t) ==
    /\ t.pc = "prep"
    /\ Replace(t, Return(t, AgentResultFailure(<<"error">>, "LlmError")))
    /\ last' = Ret("task", TRUE, <<>>)
    /\ UNCHANGED <<TaskFrame, events>>

TurnSpawn(t) ==
    /\ t.pc = "prep"
    /\ backend_id \in {"claudecode", "opencode"}
    /\ Replace(t, [t EXCEPT !.pc = "loop", !.child = "running"])
    /\ last' = Ret("task", TRUE, <<>>)
    /\ UNCHANGED <<TaskFrame, events>>

\* the cancel.cancelled() branch of the select! in the read loop
cancel_reason == "Cancelled"

TurnCancelled(t) ==
    /\ t.pc = "loop"
    /\ t.token \in tripped
    /\ Replace(t, Return([t EXCEPT !.child = "exited"],
                         AgentResultFailure(<<"Cancelled">>, cancel_reason)))
    /\ last' = Ret("task", TRUE, <<>>)
    /\ UNCHANGED <<TaskFrame, events>>

\* the child process exits by itself and child.wait() sees it
ChildExit(t) ==
    /\ t.pc = "wait"
    /\ t.child = "running"
    /\ Replace(t, [t EXCEPT !.child = "exited"])
    /\ last' = Ret("task", TRUE, <<>>)
    /\ UNCHANGED <<TaskFrame, events>>

\* the error test of the Result event
result_is_error(is_error, subtype) == is_error \/ subtype = "error"

\* the line branch of the select! in run_claudecode_turn
ClaudeReadLineTo(k, t) ==
    /\ backend_id = "claudecode"
    /\ t.pc = "loop"
    /\ \/ \* a thinking delta: one cumulative Thinking event
          /\ t.nread < MaxLines
          /\ Replace(t, [t EXCEPT !.nread = @ + 1])
          /\ send_ignored(events_tx_send(k, Thinking(<<"thought">>, FALSE)))
          /\ events' = Append(events, Thinking(<<"thought">>, FALSE))
       \/ \* an assistant message with a non-empty Text block
          /\ t.nread < MaxLines
          /\ \E text \in Outputs :
               Replace(t, [t EXCEPT !.nread = @ + 1, !.final_result = text])
          /\ UNCHANGED events
       \/ \* a Result event (res = <<>>: it carries no result text): break
          /\ \E is_error \in BOOLEAN, subtype \in Subtypes :
             \E res \in (IF result_is_error(is_error, subtype)
                         THEN ErrorTexts ELSE Outputs \cup {OutBlank})
                        \cup {<<>>} :
               Replace(t, [t EXCEPT
                   !.pc = "wait",
                   !.result_event =
                       <<[is_error |-> is_error, subtype |-> subtype]>>,
                   !.had_error = result_is_error(is_error, subtype),
                   !.final_result =
                       IF result_is_error(is_error, subtype)
                       THEN (IF res = <<>> THEN <<"Unknown error">> ELSE res)
                       ELSE (IF res = <<>> THEN @ ELSE res)])
          /\ UNCHANGED events
       \/ \* EOF (the child closed its stdout) or a read error: break
          /\ Replace(t, [t EXCEPT !.pc = "wait"])
          /\ UNCHANGED events
    /\ last' = Ret("task", TRUE, <<>>)
    /\ UNCHANGED TaskFrame

ClaudeReadLine(t) == \E k \in Receivers : ClaudeReadLineTo(k, t)

\* the slice &line[..200] of the parse-failure warning panics when byte 200
\* of the line is not a character boundary
ClaudePanic(t) ==
    /\ backend_id = "claudecode"
    /\ t.pc = "loop"
    /\ Replace(t, [t EXCEPT !.pc = "panicked"])
    /\ last' = Ret("task", TRUE, <<>>)
    /\ UNCHANGED <<TaskFrame, events>>

\* str::trim().is_empty()
trim_is_empty(str) == \A i \in 1..Len(str) : str[i] \in {" ", "\n"}

\* run_claudecode_turn after the loop: child.wait() and the result (the
\* other definition leaves out the test for an empty final text)
ClaudeResultUnchecked(t) ==
    IF t.had_error
    THEN AgentResultFailure(t.final_result, "LlmError")
    ELSE AgentResultSuccess(t.final_result)
ClaudeResult(t) ==
    IF trim_is_empty(t.final_result) /\ ~t.had_error
    THEN AgentResultFailure(<<"Claude Code produced no output">>, "LlmError")
    ELSE IF t.had_error
    THEN AgentResultFailure(t.final_result, "LlmError")
    ELSE AgentResultSuccess(t.final_result)

ClaudeFinish(t) ==
    /\ backend_id = "claudecode"
    /\ t.pc = "wait"
    /\ t.child = "exited"
    /\ Replace(t, Return(t, ClaudeResult(t)))
    /\ last' = Ret("task", TRUE, <<>>)
    /\ UNCHANGED <<TaskFrame, events>>

\* the stdout branch of the select! in run_opencode_turn
OpencodeReadTo(k, t) ==
    /\ backend_id = "opencode"
    /\ t.pc = "loop"
    /\ \/ \* Ok(n): the chunk is appended and forwarded as Thinking
          /\ t.nread < MaxLines
          /\ \E chunk \in OpencodeChunks :
               /\ Replace(t, [t EXCEPT
                      !.nread = @ + 1,
                      !.final_result = @ \o chunk,
                      !.had_error = @ \/ Contains(chunk, "Error:")])
               /\ send_ignored(events_tx_send(k, Thinking(chunk, FALSE)))
               /\ events' = Append(events, Thinking(chunk, FALSE))
       \/ \* Ok(0) or Err: break
          /\ Replace(t, [t EXCEPT !.pc = "wait"])
          /\ UNCHANGED events
    /\ last' = Ret("task", TRUE, <<>>)
    /\ UNCHANGED TaskFrame

OpencodeRead(t) == \E k \in Receivers : OpencodeReadTo(k, t)

BannerTokens ==
    {"starting opencode server", "opencode server started", "sending prompt",
     "waiting for completion", "all tasks completed", "completed",
     "session id:", "session:"}

SameLine(out, i, j) ==
    \A k \in 1..Len(out) :
        ((i <= k /\ k <= j) \/ (j <= k /\ k <= i)) => out[k] # "\n"

\* every non-empty line of the output is a banner line
opencode_output_needs_fallback(out) ==
    \A i \in 1..Len(out) :
        out[i] # "\n" =>
            \E j \in 1..Len(out) : out[j] \in BannerTokens /\ SameLine(out, i, j)

\* run_opencode_turn after the loop, given the child's exit status and what
\* the storage fallback finds (<<>>: no session id or no assistant text)
OpencodeResult(t, exit_ok, recovered) ==
    LET had == t.had_error \/ ~exit_ok
        fr1 == IF ~exit_ok /\ t.final_result = <<>>
               THEN <<"OpenCode CLI exited with status">>
               ELSE t.final_result
        fr2 == IF opencode_output_needs_fallback(fr1) /\ recovered # <<>>
               THEN recovered ELSE fr1
    IN  IF had THEN AgentResultFailure(fr2, "LlmError")
        ELSE AgentResultSuccess(fr2)

OpencodeFinishTo(k, t) ==
    /\ backend_id = "opencode"
    /\ t.pc = "wait"
    /\ t.child = "exited"
    /\ \E exit_ok \in BOOLEAN, recovered \in StorageTexts :
         Replace(t, Return(t, OpencodeResult(t, exit_ok, recovered)))
    /\ send_ignored(events_tx_send(k, Thinking(<<>>, TRUE)))
    /\ events' = Append(events, Thinking(<<>>, TRUE))
    /\ last' = Ret("task", TRUE, <<>>)
    /\ UNCHANGED TaskFrame

OpencodeFinish(t) == \E k \in Receivers : OpencodeFinishTo(k, t)

(* --------------------------- specification ---------------------------- *)

Next ==
    \/ QueueMessage
    \/ Cancel
    \/ StartNext
    \/ PollCompletion
    \/ \E t \in tasks : TurnPrepFail(t)
    \/ \E t \in tasks : TurnSpawn(t)
    \/ \E t \in tasks : TurnCancelled(t)
    \/ \E t \in tasks : ChildExit(t)
    \/ \E t \in tasks : ClaudeReadLine(t)
    \/ \E t \in tasks : ClaudePanic(t)
    \/ \E t \in tasks : ClaudeFinish(t)
    \/ \E t \in tasks : OpencodeRead(t)
    \/ \E t \in tasks : OpencodeFinish(t)

Spec == Init /\ [][Next]_vars

\* Fair scheduling: the runtime keeps running a turn task that can take a
\* step of its own (the steps before the spawn, the cancellation branch of
\* the select!, which tokio picks at random among the ready branches, and the
\* code after child.wait() has returned), child.kill() ends the child, and
\* the owner of the runner keeps polling.  The child's output and the
\* child's own exit are not in the program's hands.
Fairness ==
    /\ WF_vars(\E t \in tasks : TurnPrepFail(t) \/ TurnSpawn(t))
    /\ WF_vars(\E t \in tasks : TurnCancelled(t))
    /\ WF_vars(\E t \in tasks : ClaudeFinish(t))
    /\ WF_vars(\E t \in tasks : OpencodeFinish(t))
    /\ WF_vars(PollCompletion)

LiveSpec == Init /\ [][Next]_vars /\ Fairness

(* ----------------------- complete_mission tool ------------------------ *)

\* number of SetStatus commands explored
MaxCmds == 2

UpperCase == <<"A", "B", "C", "D", "E", "F", "G", "H", "I", "J", "K", "L", "M",
               "N", "O", "P", "Q", "R", "S", "T", "U", "V", "W", "X", "Y", "Z">>
LowerCase == <<"a", "b", "c", "d", "e", "f", "g", "h", "i", "j", "k", "l", "m",
               "n", "o", "p", "q", "r", "s", "t", "u", "v", "w", "x", "y", "z">>

\* str::to_lowercase on a string given as its characters
keep_case(str) == str
LowerOf ==
    [c \in {UpperCase[k] : k \in 1..Len(UpperCase)} |->
        LowerCase[CHOOSE k \in 1..Len(UpperCase) : UpperCase[k] = c]]
to_lowercase(str) ==
    [i \in 1..Len(str) |->
        IF str[i] \in DOMAIN LowerOf THEN LowerOf[str[i]] ELSE str[i]]

StrCompleted == <<"c", "o", "m", "p", "l", "e", "t", "e", "d">>
StrFailed == <<"f", "a", "i", "l", "e", "d">>

\* the status strings an agent passes to the tool
Statuses ==
    {StrCompleted, StrFailed,
     <<"C", "o", "m", "p", "l", "e", "t", "e", "d">>,
     <<"F", "A", "I", "L", "E", "D">>,
     <<"d", "o", "n", "e">>}

\* the summary argument (<<>>: absent)
Summaries == {<<>>, <<"all done">>}

\* the shared current_mission_id cell (0: no mission is current)
NoMission == 0
MissionCells == {NoMission, 1}

SetStatus(status, summary) == [status |-> status, summary |-> summary]

\* mpsc::Sender::send: fails when the receiver is gone
cmd_tx_send(cmd) ==
    IF mission_cmd.rx_alive
    THEN [ok |-> TRUE, chan |-> [mission_cmd EXCEPT !.buf = Append(@, cmd)]]
    ELSE [ok |-> FALSE, chan |-> mission_cmd]

\* CompleteMission::execute: the Result it returns and the channel it leaves
CompleteMissionResult(a) ==
    LET lowered == to_lowercase(a.status)
        status == IF lowered = StrCompleted THEN "completed" ELSE "failed"
        sent == cmd_tx_send(SetStatus(status, a.summary))
    IN  IF ~a.parsed
        THEN [ok |-> FALSE, text |-> <<"Invalid arguments:">>,
              chan |-> mission_cmd]
        ELSE IF lowered \notin {StrCompleted, StrFailed}
        THEN [ok |-> FALSE, text |-> <<"Invalid status">>, chan |-> mission_cmd]
        ELSE IF ~a.control
        THEN [ok |-> TRUE, text |-> <<"Mission control not available">>,
              chan |-> mission_cmd]
        ELSE IF a.mission = NoMission
        THEN [ok |-> TRUE, text |-> <<"No active mission to complete">>,
              chan |-> mission_cmd]
        ELSE IF ~sent.ok
        THEN [ok |-> FALSE,
              text |-> <<"Failed to send mission control command">>,
              chan |-> sent.chan]
        ELSE [ok |-> TRUE,
              text |-> <<"Mission marked as", status, ".">> \o
                       (IF a.summary = <<>> THEN <<>>
                        ELSE <<" Summary: ">> \o a.summary),
              chan |-> sent.chan]

ToolFrame == <<tasks, tripped, events, nmsgs, nturns, started, returned,
               now, files, locals>>

\* the invocations of the tool: whether the JSON arguments deserialize, the
\* status and summary fields, whether self.control is Some and the content
\* of the current_mission_id cell
ToolArgs ==
    [parsed : BOOLEAN, status : Statuses, summary : Summaries,
     control : BOOLEAN, mission : MissionCells]

\* the invocations an agent makes for a current mission with the handle
\* attached
AgentCalls ==
    {a \in ToolArgs : /\ a.parsed /\ a.control /\ a.mission # NoMission
                      /\ a.summary = <<>>
                      /\ a.status \in {StrCompleted, StrFailed}}

CompleteMissionExecute(a) ==
    /\ Len(mission_cmd.buf) + Len(delivered) < MaxCmds
    /\ LET r == CompleteMissionResult(a)
       IN  /\ args' = a
           /\ mission_cmd' = r.chan
           /\ last' = Ret("complete_mission", r.ok, r.text)
    /\ UNCHANGED <<runner, ToolFrame, delivered>>

\* the receiving end of the Mission Control channel takes the next command;
\* no method of MissionRunner takes a MissionControlCommand, and the
\* MissionControl handle start_next builds is passed to run_mission_turn as
\* the unused parameter _mission_control
RecvSetStatus ==
    /\ mission_cmd.rx_alive
    /\ mission_cmd.buf # <<>>
    /\ delivered' = Append(delivered, Head(mission_cmd.buf))
    /\ mission_cmd' = [mission_cmd EXCEPT !.buf = Tail(@)]
    /\ last' = Ret("recv", TRUE, <<>>)
    /\ UNCHANGED <<runner, ToolFrame, args>>

\* the receiver of the Mission Control channel is dropped
DropReceiver ==
    /\ mission_cmd.rx_alive
    /\ mission_cmd' = [mission_cmd EXCEPT !.rx_alive = FALSE]
    /\ last' = Ret("drop", TRUE, <<>>)
    /\ UNCHANGED <<runner, ToolFrame, args, delivered>>

\* the tool and the channel, for every invocation
ToolNext ==
    \/ \E a \in ToolArgs : CompleteMissionExecute(a)
    \/ RecvSetStatus
    \/ DropReceiver

ToolInit == Init /\ backend_id = "claudecode"

ToolSpec == ToolInit /\ [][ToolNext]_vars

\* an agent's invocations next to the runner of the mission, whose turns
\* here end before the child is spawned
ControlNext ==
    \/ \E a \in AgentCalls : CompleteMissionExecute(a)
    \/ RecvSetStatus
    \/ QueueMessage
    \/ StartNext
    \/ PollCompletion
    \/ \E t \in tasks : TurnPrepFail(t)

ControlSpec == Init /\ [][ControlNext]_vars

(* --------------------------- health check ----------------------------- *)

\* the clock ticks twice a second: Instant and Duration are finer than the
\* whole seconds as_secs returns
TicksPerSec == 2

\* the stall threshold of check_health, in seconds
StallSeconds == 60

\* number of ticks past the threshold the clock is followed
MaxLate == 2

\* Duration::as_secs: the whole seconds of a duration given in ticks
as_secs(d) == d \div TicksPerSec

\* the readings of the clock that are followed: one tick after the start,
\* and the ticks from the threshold on
Instants ==
    {1} \cup ((StallSeconds * TicksPerSec) ..
              (StallSeconds * TicksPerSec + MaxLate))

\* the paths a mission can be asked to produce
Paths == {"report.md", "out.txt"}

\* the initial messages of a mission
InitialMessages ==
    {<<"hello">>, <<"write", "report.md">>,
     <<"write", "report.md", "and", "out.txt">>}

\* extract_deliverables: the expected paths named in the message
extract_deliverables(message) ==
    {message[i] : i \in 1..Len(message)} \cap Paths

\* DeliverableSet::missing_paths: the expected paths that do not exist
missing_paths == deliverables \ files

Healthy == [kind |-> "Healthy"]
Stalled(seconds, st) ==
    [kind |-> "Stalled", seconds_since_activity |-> seconds, last_state |-> st]
MissingDeliverables(missing) ==
    [kind |-> "MissingDeliverables", missing |-> missing]

\* the guard of the deliverables check of check_health (the other definition
\* forgets explicitly_completed)
unfinished_any == ~is_running /\ deliverables # {}
unfinished == ~is_running /\ ~explicitly_completed /\ deliverables # {}

check_health ==
    LET seconds_since == as_secs(now - last_activity)
    IN  IF is_running /\ seconds_since > StallSeconds
        THEN Stalled(seconds_since, state)
        ELSE IF unfinished /\ missing_paths # {}
        THEN MissingDeliverables(missing_paths)
        ELSE Healthy

HealthFrame == <<tasks, tripped, events, nmsgs, nturns, started, returned,
                 mission_cmd, delivered, files, args, locals>>

CheckHealth ==
    /\ last' = Ret("check_health", TRUE, <<check_health>>)
    /\ UNCHANGED <<runner, HealthFrame, now>>

\* set_initial_message, called with the first message of the mission
SetInitialMessage ==
    /\ nmsgs = 0
    /\ \E message \in InitialMessages :
         deliverables' = extract_deliverables(message)
    /\ last' = Ret("set_initial_message", TRUE, <<>>)
    /\ UNCHANGED <<state, queue, history, cancel_token, running_handle,
                   explicitly_completed, backend_id, last_activity,
                   HealthFrame, now>>

\* time passes
Tick ==
    /\ \E t \in Instants :
         /\ t > now
         /\ now' = t
    /\ last' = Ret("tick", TRUE, <<>>)
    /\ UNCHANGED <<runner, HealthFrame>>

\* the runner right after its first turn was collected with the output
\* OutMarked (set_initial_message was called with the first message)
AfterCompletedTurn ==
    /\ state = "Queued"
    /\ queue = <<>>
    /\ history = << <<"user", ContentOf(1)>>, <<"assistant", OutMarked>> >>
    /\ cancel_token = 1
    /\ running_handle = NoHandle
    /\ explicitly_completed = TRUE
    /\ backend_id = "claudecode"
    /\ last_activity = 0
    /\ deliverables \in {extract_deliverables(m) : m \in InitialMessages}
    /\ mission_cmd = [buf |-> <<>>, rx_alive |-> TRUE]
    /\ delivered = <<>>
    /\ now = 0
    /\ args = <<>>
    /\ locals = NoLocals
    /\ tasks = {}
    /\ tripped = {}
    /\ events = <<UserMessage(QueuedMessage(1, ContentOf(1), AgentOf(1)))>>
    /\ nmsgs = 1
    /\ nturns = 1
    /\ started = <<1>>
    /\ returned = <<1>>
    /\ last = Ret("poll_completion", TRUE,
                  <<1, ContentOf(1), AgentResultSuccess(OutMarked)>>)

\* a new runner, or one whose first turn completed the mission, in a
\* workspace where some of the paths exist
HealthInit ==
    /\ files \in SUBSET Paths
    /\ \/ /\ state = "Queued"
          /\ queue = <<>>
          /\ history = <<>>
          /\ cancel_token = NoToken
          /\ running_handle = NoHandle
          /\ explicitly_completed = FALSE
          /\ backend_id = "claudecode"
          /\ last_activity = 0
          /\ deliverables = {}
          /\ mission_cmd = [buf |-> <<>>, rx_alive |-> TRUE]
          /\ delivered = <<>>
          /\ now = 0
          /\ args = <<>>
          /\ locals = NoLocals
          /\ tasks = {}
          /\ tripped = {}
          /\ events = <<>>
          /\ nmsgs = 0
          /\ nturns = 0
          /\ started = <<>>
          /\ returned = <<>>
          /\ last = Ret("new", TRUE, <<>>)
       \/ AfterCompletedTurn

HealthNext ==
    \/ SetInitialMessage
    \/ Tick
    \/ CheckHealth
    \/ QueueMessage
    \/ StartNext
    \/ PollCompletion
    \/ \E t \in tasks : TurnPrepFail(t)

HealthSpec == HealthInit /\ [][HealthNext]_vars

(* ------------------------ mission workspaces -------------------------- *)

\* the length of the short id mission_workspace_dir cuts from the mission id
ShortIdLen == 8

Zeros(n) == [i \in 1..n |-> "0"]

\* Uuid::to_string: the hyphenated form, 8-4-4-4-12 hexadecimal digits,
\* given the first and the last group
UuidString(first, tail) ==
    first \o <<"-">> \o Zeros(4) \o <<"-", "4">> \o Zeros(3) \o
    <<"-", "8">> \o Zeros(3) \o <<"-">> \o tail

\* mission ids (version 4 UUIDs) that differ in the first group, in the last
\* group, or in both
MissionIds ==
    {UuidString(first, tail) :
        first \in {Zeros(8), Zeros(7) \o <<"1">>},
        tail \in {Zeros(12), Zeros(11) \o <<"1">>}}

\* working directories, as their path components
WorkingDirs == {<< <<"root">> >>, << <<"srv">>, <<"agent">> >>}

workspaces_root(working_dir) == Append(working_dir, <<"workspaces">>)

\* mission_workspace_dir: <working_dir>/workspaces/mission-<short id>
mission_workspace_dir(working_dir, mission_id) ==
    LET short_id == SubSeq(mission_id, 1, ShortIdLen)
    IN  Append(workspaces_root(working_dir), <<"mission-">> \o short_id)

DirFrame == <<runner, tasks, tripped, events, nmsgs, nturns, started,
              returned, mission_cmd, delivered, now, args, locals>>

\* the directory of each of the two missions is computed
MissionWorkspaceDir ==
    /\ last' = Ret("mission_workspace_dir", TRUE,
                   <<mission_workspace_dir(args.working_dir, args.a),
                     mission_workspace_dir(args.working_dir, args.b)>>)
    /\ UNCHANGED <<DirFrame, files>>

\* prepare_mission_workspace for one of the two missions: the directories
\* output and temp are created and opencode.json is written
PrepareMissionWorkspace ==
    /\ \E mission_id \in {args.a, args.b} :
         LET dir == mission_workspace_dir(args.working_dir, mission_id)
         IN  /\ files' = files \cup {Append(dir, <<"output">>),
                                      Append(dir, <<"temp">>),
                                      Append(dir, <<"opencode.json">>)}
             /\ last' = Ret("prepare_mission_workspace", TRUE,
                            <<mission_id, dir>>)
    /\ UNCHANGED DirFrame

\* a new runner next to two missions of one working directory
DirInit ==
    /\ state = "Queued"
    /\ queue = <<>>
    /\ history = <<>>
    /\ cancel_token = NoToken
    /\ running_handle = NoHandle
    /\ explicitly_completed = FALSE
    /\ backend_id = "opencode"
    /\ last_activity = 0
    /\ deliverables = {}
    /\ mission_cmd = [buf |-> <<>>, rx_alive |-> TRUE]
    /\ delivered = <<>>
    /\ now = 0
    /\ files = {}
    /\ args \in [working_dir : WorkingDirs, a : MissionIds, b : MissionIds]
    /\ locals = NoLocals
    /\ tasks = {}
    /\ tripped = {}
    /\ events = <<>>
    /\ nmsgs = 0
    /\ nturns = 0
    /\ started = <<>>
    /\ returned = <<>>
    /\ last = Ret("new", TRUE, <<>>)

DirNext ==
    \/ MissionWorkspaceDir
    \/ PrepareMissionWorkspace

DirSpec == DirInit /\ [][DirNext]_vars

(* ------------------------------ claims -------------------------------- *)

\* C1: at most one turn task of the mission exists at any time, and a
\* start_next made while is_running() holds returns false, pops nothing from
\* the queue, emits no event and spawns no task.
C1_AtMostOneTurn ==
    [][/\ Cardinality(tasks') <= 1
       /\ (last'.op = "start_next" /\ is_running) =>
              /\ last'.ok = FALSE
              /\ UNCHANGED <<queue, events, tasks, state, running_handle>>]_vars

\* a start_next was refused while a turn was running and a message waited
C1_Witness ==
    /\ last.op = "start_next"
    /\ ~last.ok
    /\ is_running
    /\ queue # <<>>
    /\ Cardinality(tasks) = 1

\* C2: the running-task handle is present exactly when the state is Running
\* or WaitingForTool, and a cancellation token is present whenever
\* is_running() holds.
C2_HandleIffRunning ==
    /\ (running_handle # NoHandle) <=> is_running
    /\ is_running => cancel_token # NoToken
    /\ running_handle # NoHandle => \E t \in tasks : t.id = running_handle

\* the second turn was polled before it finished and its handle put back
C2_Witness ==
    /\ last.op = "poll_completion"
    /\ is_running
    /\ running_handle # NoHandle
    /\ nturns = 2

\* C3: once the state is Finished no later call changes it.
C3_FinishedAbsorbing == [][state = "Finished" => state' = "Finished"]_vars

\* C4: once explicitly_completed is set every start_next returns false and
\* starts no turn.
C4_RefusedAfterCompletion ==
    [][(explicitly_completed /\ last'.op = "start_next") =>
           (last'.ok = FALSE /\ tasks' = tasks /\ state' = state)]_vars

\* C5: a poll_completion that collects a finished turn leaves the state
\* Finished when the completion of the mission was observed, and Queued only
\* when it was not.
C5_FinishedOnCompletion ==
    [][(last'.op = "poll_completion" /\ last'.ok) =>
           IF completion_observed(last'.val[3].output)
           THEN state' = "Finished"
           ELSE state' = "Queued"]_vars

\* C6: a poll_completion that returns a result appends the user input and
\* then the assistant output of the collected turn to history, and nothing
\* else; one that returns None leaves history unchanged.
C6_HistoryGrowsByTwo ==
    [][last'.op = "poll_completion" =>
           IF last'.ok
           THEN LET t == TaskOf(running_handle) IN
                /\ Len(history') = Len(history) + 2
                /\ SubSeq(history', 1, Len(history)) = history
                /\ history'[Len(history) + 1] = <<"user", t.input>>
                /\ history'[Len(history) + 2] = <<"assistant", t.result.output>>
                /\ last'.val = <<t.msg_id, t.input, t.result>>
           ELSE history' = history]_vars

\* two turns were collected
C6_Witness ==
    /\ last.op = "poll_completion"
    /\ last.ok
    /\ Len(history) = 4

\* C7: the i-th turn started is the turn of the i-th message queued, every
\* message is started at most once, the messages not yet started wait in
\* the queue in the order they were queued, and poll_completion returns the
\* started messages in that order.
C7_Fifo ==
    /\ Len(started) <= nmsgs
    /\ \A i \in 1..Len(started) : started[i] = i
    /\ Len(queue) = nmsgs - Len(started)
    /\ \A i \in 1..Len(queue) :
           queue[i] = QueuedMessage(Len(started) + i, ContentOf(Len(started) + i),
                                    AgentOf(Len(started) + i))
    /\ \A i \in 1..Len(returned) : returned[i] \in 1..Len(started)
    /\ \A i, j \in 1..Len(returned) : i < j => returned[i] < returned[j]

\* a second message was queued while the first turn ran, and both turns
\* were started and collected
C7_Witness ==
    /\ started = <<1, 2>>
    /\ returned = <<1, 2>>

\* C8: the poll_completion that meets a panicked turn task returns None,
\* sets the state to Finished, leaves the handle cleared and touches
\* neither history nor explicitly_completed.
C8_PanicFinishes ==
    [][(/\ last'.op = "poll_completion"
        /\ running_handle # NoHandle
        /\ TaskOf(running_handle).pc = "panicked") =>
           /\ last'.ok = FALSE
           /\ last'.val = <<>>
           /\ state' = "Finished"
           /\ running_handle' = NoHandle
           /\ history' = history
           /\ explicitly_completed' = explicitly_completed]_vars

\* a panicked turn was collected after an earlier turn had completed the
\* mission explicitly
C8_Witness ==
    /\ last.op = "poll_completion"
    /\ state = "Finished"
    /\ running_handle = NoHandle
    /\ explicitly_completed
    /\ Len(history) = 2

\* C9: a turn whose cancellation token was tripped before the turn executor
\* returned has success = false and terminal reason Cancelled.
C9_TrippedMeansCancelled ==
    \A t \in tasks :
        (t.pc = "done" /\ t.tripped_at_return) =>
            (~t.result.success /\ t.result.terminal_reason = "Cancelled")

\* C10: once the token of a running turn is tripped, the mission eventually
\* leaves the running states.
C10_CancelLiveness ==
    (is_running /\ cancel_token \in tripped) ~> ~is_running

\* C11: the poll_completion that collects a turn whose token was tripped
\* while it ran returns the (msg_id, input, result) triple with success =
\* false and terminal reason Cancelled, appends the user entry and the
\* assistant entry of that turn to history, and leaves the state Queued.
C11_CancelledTurnRecorded ==
    [][(/\ last'.op = "poll_completion"
        /\ running_handle # NoHandle
        /\ TaskOf(running_handle).pc = "done"
        /\ TaskOf(running_handle).tripped_at_return) =>
           LET t == TaskOf(running_handle) IN
           /\ last'.ok
           /\ last'.val = <<t.msg_id, t.input, t.result>>
           /\ ~t.result.success
           /\ t.result.terminal_reason = "Cancelled"
           /\ history' = history \o << <<"user", t.input>>,
                                       <<"assistant", t.result.output>> >>
           /\ state' = "Queued"]_vars

\* C12: every start_next that starts a turn installs a token that differs
\* from the one installed before, is not tripped and is the token the new
\* turn task holds; and the token of a turn task becomes tripped only by a
\* cancel made while that turn is the running one.
C12_TokenPerTurn ==
    [][/\ (last'.op = "start_next" /\ last'.ok) =>
              /\ cancel_token' # cancel_token
              /\ cancel_token' \notin tripped'
              /\ \E t \in tasks' :
                     t.id = running_handle' /\ t.token = cancel_token'
       /\ \A t \in tasks' :
              (t.token \in tripped' /\ t.token \notin tripped) =>
                  /\ last'.op = "cancel"
                  /\ is_running
                  /\ running_handle = t.id]_vars

\* the first turn was cancelled, a further cancel was made while no turn
\* ran, and the second turn was started with an untripped token
C12_Witness ==
    /\ last.op = "start_next"
    /\ last.ok
    /\ nturns = 2
    /\ tripped = {1}
    /\ cancel_token = 2
    /\ \E t \in tasks : t.token = 2

C17_SendsIffValid ==
    [][last'.op = "complete_mission" =>
           LET a == args'
               valid == /\ a.parsed /\ a.control /\ a.mission # NoMission
                        /\ a.status \in {StrCompleted, StrFailed}
               name == IF a.status = StrCompleted THEN "completed" ELSE "failed"
           IN  /\ valid => mission_cmd'.buf =
                               Append(mission_cmd.buf, SetStatus(name, a.summary))
               /\ ~valid => mission_cmd' = mission_cmd
               /\ (last'.val # <<>> /\ last'.val[1] = "Mission marked as") =>
                      Len(mission_cmd'.buf) = Len(mission_cmd.buf) + 1]_vars

\* C17 amended: the call sends exactly one SetStatus{status, summary} when
\* the arguments deserialize, the handle is attached, a mission is current,
\* the status is "completed" or "failed" up to letter case and the receiver
\* of the channel is alive; in every other case it leaves the channel as it
\* was; it returns Ok with a text that begins with "Mission marked as"
\* exactly when the command was sent.
C17_SendsIffValidAnyCase ==
    [][last'.op = "complete_mission" =>
           LET a == args'
               Same(x, y) ==
                   /\ Len(x) = Len(y)
                   /\ \A i \in 1..Len(x) :
                          \/ x[i] = y[i]
                          \/ \E k \in 1..Len(UpperCase) :
                                 x[i] = UpperCase[k] /\ y[i] = LowerCase[k]
               name == IF Same(a.status, StrCompleted) THEN "completed"
                       ELSE "failed"
               valid == /\ a.parsed /\ a.control /\ a.mission # NoMission
                        /\ Same(a.status, StrCompleted) \/ Same(a.status, StrFailed)
                        /\ mission_cmd.rx_alive
               marked == /\ last'.ok
                         /\ last'.val # <<>>
                         /\ last'.val[1] = "Mission marked as"
           IN  /\ valid => mission_cmd'.buf =
                               Append(mission_cmd.buf, SetStatus(name, a.summary))
               /\ ~valid => mission_cmd' = mission_cmd
               /\ mission_cmd'.rx_alive = mission_cmd.rx_alive
               /\ marked <=> valid
               /\ marked => last'.val[2] = name
               /\ UNCHANGED <<runner, delivered>>]_vars

\* a call with the status "FAILED" and a summary sent its command behind an
\* earlier one
C17_Witness ==
    /\ last.op = "complete_mission"
    /\ last.ok
    /\ args.status = <<"F", "A", "I", "L", "E", "D">>
    /\ args.summary # <<>>
    /\ Len(mission_cmd.buf) = 2
    /\ mission_cmd.buf[2] = SetStatus("failed", args.summary)
    /\ last.val[1] = "Mission marked as"

\* C14: a poll_completion that collects a turn leaves explicitly_completed
\* true when the turn's output contains "Mission marked as" or
\* "complete_mission", and as it was when the output contains neither.
C14_FlagFollowsSentinel ==
    [][(last'.op = "poll_completion" /\ last'.ok) =>
           LET out == last'.val[3].output
               has(needle) == \E i \in 1..Len(out) : out[i] = needle
           IN  explicitly_completed' =
                   IF has("Mission marked as") \/ has("complete_mission")
                   THEN TRUE
                   ELSE explicitly_completed]_vars

\* a turn whose output names complete_mission was collected and set the
\* flag, after a first turn without a sentinel had left it false
C14_Witness ==
    /\ last.op = "poll_completion"
    /\ last.ok
    /\ last.val[3].output = OutToolName
    /\ explicitly_completed
    /\ Len(history) = 4
    /\ history[2] = <<"assistant", OutPlain>>

\* C15: check_health returns Stalled exactly when is_running() holds and
\* more than 60 seconds have passed since last_activity, and the last_state
\* it reports is the current state.
C15_StalledIffOverAMinute ==
    last.op = "check_health" =>
        LET h == last.val[1] IN
        /\ (h.kind = "Stalled") <=>
               (is_running /\ now - last_activity > StallSeconds * TicksPerSec)
        /\ h.kind = "Stalled" => h.last_state = state

C19_DistinctDirs ==
    /\ (last.op = "mission_workspace_dir" /\ args.a # args.b) =>
           last.val[1] # last.val[2]
    /\ last.op = "prepare_mission_workspace" =>
           \A other \in {args.a, args.b} \ {last.val[1]} :
               Append(mission_workspace_dir(args.working_dir, other),
                      <<"opencode.json">>) \in files =>
                   mission_workspace_dir(args.working_dir, other) # last.val[2]

\* C20 as claimed: a Claude Code turn that read a Result event returns
\* success = true exactly when the event has is_error = false and a subtype
\* other than "error".
C20_SuccessIffNoError ==
    \A t \in tasks :
        (t.pc = "done" /\ t.result_event # <<>>) =>
            (t.result.success <=>
                (~t.result_event[1].is_error
                 /\ t.result_event[1].subtype # "error"))

\* C20 amended: such a turn returns success = true exactly when the event
\* has is_error = false and a subtype other than "error" and the final text
\* (the event's result text, or without one the last non-empty assistant
\* text) is not blank; every other such turn fails with LlmError.
C20_SuccessIffNoErrorAndText ==
    \A t \in tasks :
        (t.pc = "done" /\ t.result_event # <<>>) =>
            /\ t.result.success <=>
                   /\ ~t.result_event[1].is_error
                   /\ t.result_event[1].subtype # "error"
                   /\ \E i \in 1..Len(t.final_result) :
                          t.final_result[i] \notin {" ", "\n"}
            /\ ~t.result.success => t.result.terminal_reason = "LlmError"

\* a turn whose Result event reported no error and carried no text returned
\* the assistant text read before it
C20_Witness ==
    \E t \in tasks :
        /\ t.pc = "done"
        /\ t.result_event = <<[is_error |-> FALSE, subtype |-> "success"]>>
        /\ t.nread = 1
        /\ t.result = AgentResultSuccess(OutPlain)

\* C18: every step the runner or a turn task takes when a send meets some
\* number of subscribers it takes in the same way, to the same next state
\* (result, history, state and all), when the send meets any other number,
\* none included: no send fails or stalls its producer.
C18_SinkIndependent ==
    [][\A k \in Receivers :
           /\ last'.op = "start_next" => StartNextTo(k)
           /\ (last'.op = "task" /\ events' # events) =>
                  \E t \in tasks : \/ ClaudeReadLineTo(k, t)
                                    \/ OpencodeReadTo(k, t)
                                    \/ OpencodeFinishTo(k, t)]_vars

\* a turn that sent a UserMessage and a Thinking event was collected with a
\* successful result
C18_Witness ==
    /\ last.op = "poll_completion"
    /\ last.ok
    /\ last.val[3].success
    /\ Len(events) >= 2
    /\ events[1].kind = "UserMessage"
    /\ events[2].kind = "Thinking"

\* C21: an OpenCode turn whose child ran to its end, whose stdout was empty
\* or banner-only and for which storage gave no text (the output is still
\* what stdout gave) is a failure with terminal reason LlmError.
C21_FallbackMissFails ==
    backend_id = "opencode" =>
        \A t \in tasks :
            (/\ t.pc = "done"
             /\ t.child = "exited"
             /\ t.result.output = t.final_result
             /\ opencode_output_needs_fallback(t.final_result)) =>
                /\ ~t.result.success
                /\ t.result.terminal_reason = "LlmError"

(* --------------------- the Claude adapter's stream --------------------- *)
\* run_claudecode_turn from the creation of its local state to its return, with
\* the parsed lines of the child's stdout spelt out.  Strings are sequences of
\* characters here, args is the sequence of lines read so far and locals holds
\* the local variables of the function.

\* the longest stream of lines that is read
MaxStream == 3

\* the content-block indices of the stream events
Indexes == {0, 1}

DeltaTexts == {<<"a">>, <<"b", "c">>}

\* StreamEvent::ContentBlockDelta { index, delta: { delta_type, text } }
Delta(index, delta_type, text) ==
    [type |-> "content_block_delta", index |-> index,
     delta_type |-> delta_type, text |-> text]

\* StreamEvent::ContentBlockStart { index, content_block: { type, id, name } }
ContentBlockStart(index, block_type, id, name) ==
    [type |-> "content_block_start", index |-> index,
     block_type |-> block_type, id |-> id, name |-> name]

\* the ContentBlock variants
TextBlock(text) == [block |-> "Text", text |-> text]
ToolUse(id, name) == [block |-> "ToolUse", id |-> id, name |-> name]
ThinkingBlock(thinking) == [block |-> "Thinking", thinking |-> thinking]
ToolResultBlock(tool_use_id, content) ==
    [block |-> "ToolResult", tool_use_id |-> tool_use_id, content |-> content]

\* ClaudeEvent::Assistant, ::User, ::Result and ::System
AssistantEvent(content) == [type |-> "assistant", content |-> content]
UserEvent(content) == [type |-> "user", content |-> content]
ResultEvent(is_error, subtype, result) ==
    [type |-> "result", is_error |-> is_error, subtype |-> subtype,
     result |-> result]
SystemEvent == [type |-> "system"]

\* an empty line, and a line of the given text that does not parse
SkippedLine == [type |-> "skipped", line |-> <<>>]
Unparsable(line) == [type |-> "skipped", line |-> line]

\* the number of bytes of a line that the warning about it prints
WarnLineLen == 200

\* char::len_utf8 over the characters of the lines
len_utf8(c) == IF c = "e_acute" THEN 2 ELSE 1

\* String::len, in bytes: the characters of the lines take one or two
str_len(str) ==
    Len(str) + Len(SelectSeq(str, LAMBDA c : len_utf8(c) = 2))

\* str::is_char_boundary
is_char_boundary(str, index) ==
    \E k \in 0..Len(str) : str_len(SubSeq(str, 1, k)) = index

\* &line[..end] panics when end is not the boundary of a character
slice_to_panics(str, end) == ~is_char_boundary(str, end)

\* the arguments of the tracing::warn! of a line that does not parse: a line
\* of more than WarnLineLen bytes is cut at that byte
warn_panics(line) ==
    str_len(line) > WarnLineLen /\ slice_to_panics(line, WarnLineLen)

\* n times the character c
repeat(c, n) == [i \in 1..n |-> c]

\* lines that do not parse and are longer than the warning prints: 199 and
\* 200 one-byte characters followed by a two-byte one
LongLines ==
    {repeat("x", WarnLineLen - 1) \o <<"e_acute">>,
     repeat("x", WarnLineLen) \o <<"e_acute">>}

\* warn_panics over the long lines
WarnPanics == [line \in LongLines |-> warn_panics(line)]

\* the lines the child can write: deltas of thinking over both indices and of
\* two lengths, one with an empty text and one of text, the start of a
\* tool_use block, assistant and user messages of one and two blocks, results
\* with and without an error and a text, a system event, an empty line and
\* two long lines that do not parse
ClaudeLines ==
    {Delta(0, "thinking_delta", x) : x \in DeltaTexts}
    \cup {Delta(1, "thinking_delta", <<"a">>),
          Delta(0, "thinking_delta", <<>>), Delta(0, "text_delta", <<"a">>)}
    \cup {ContentBlockStart(1, "tool_use", "tc1", "read")}
    \cup {AssistantEvent(<<TextBlock(<<"h", "i">>)>>),
          AssistantEvent(<<ToolUse("tc1", "read")>>),
          AssistantEvent(<<ToolUse("tc2", "bash"), ToolUse("tc2", "bash")>>),
          AssistantEvent(<<ThinkingBlock(<<"a">>), ToolUse("tc2", "bash")>>)}
    \cup {UserEvent(<<ToolResultBlock("tc1", <<"o", "k">>)>>),
          UserEvent(<<ToolResultBlock("tc1", <<"o", "k">>),
                      ToolResultBlock("tc3", <<>>)>>),
          UserEvent(<<TextBlock(<<"h", "i">>), ToolResultBlock("tc3", <<>>)>>)}
    \cup {ResultEvent(FALSE, "success", <<"o", "k">>),
          ResultEvent(TRUE, "error", <<>>)}
    \cup {SystemEvent, SkippedLine}
    \cup {Unparsable(line) : line \in LongLines}

ToolCall(tool_call_id, name) ==
    [kind |-> "ToolCall", tool_call_id |-> tool_call_id, name |-> name]

ToolResult(tool_call_id, name, result) ==
    [kind |-> "ToolResult", tool_call_id |-> tool_call_id, name |-> name,
     result |-> result]

\* HashMap::insert and HashMap::get(..).unwrap_or(default)
insert(map, k, v) ==
    [i \in DOMAIN map \cup {k} |-> IF i = k THEN v ELSE map[i]]
get_or(map, k, default) == IF k \in DOMAIN map THEN map[k] ELSE default

\* the orders in which a HashMap over the indices can iterate: the hasher is
\* seeded at random, so each order of the keys can come out
HashOrders == {<<0, 1>>, <<1, 0>>}

\* the local variables of run_claudecode_turn before the loop
ClaudeLocals(order) ==
    [pc |-> "loop", hash_order |-> order, pending_tools |-> <<>>,
     thinking_buffer |-> <<>>, text_buffer |-> <<>>, last_thinking_len |-> 0,
     final_result |-> <<>>, had_error |-> FALSE, result |-> NoResult]

\* thinking_buffer.values(): the buffers of the keys present, as iterated
values(map, order) ==
    LET ks == SelectSeq(order, LAMBDA i : i \in DOMAIN map)
    IN  [k \in 1..Len(ks) |-> map[ks[k]]]

RECURSIVE join(_)
join(strs) == IF strs = <<>> THEN <<>> ELSE Head(strs) \o join(Tail(strs))

\* thinking_buffer.entry(index).or_default().push_str(text)
push_str(map, index, text) == insert(map, index, get_or(map, index, <<>>) \o text)

\* the cumulative content of a Thinking event: the buffers joined as iterated
\* (the other definition gives the buffer iterated last alone)
last_buffer(bufs) == bufs[Len(bufs)]
accumulated(bufs) == join(bufs)

\* what handling one event gives: the local variables and the events sent
Handled(l, out) == [l |-> l, out |-> out]

\* a ContentBlockDelta with delta_type "thinking_delta" and a non-empty text
thinking_delta(l, index, text) ==
    LET buf == push_str(l.thinking_buffer, index, text)
        bufs == values(buf, l.hash_order)
        total_len == Len(join(bufs))
    IN  IF total_len > l.last_thinking_len
        THEN Handled([l EXCEPT !.thinking_buffer = buf,
                               !.last_thinking_len = total_len],
                     <<Thinking(accumulated(bufs), FALSE)>>)
        ELSE Handled([l EXCEPT !.thinking_buffer = buf], <<>>)

\* StreamEvent::ContentBlockDelta (the other definition routes every delta
\* with a text to the thinking buffers)
content_block_delta_any(l, ev) ==
    IF ev.text = <<>> THEN Handled(l, <<>>)
    ELSE thinking_delta(l, ev.index, ev.text)
content_block_delta(l, ev) ==
    IF ev.text = <<>>
    THEN Handled(l, <<>>)
    ELSE IF ev.delta_type = "thinking_delta"
    THEN thinking_delta(l, ev.index, ev.text)
    ELSE IF ev.delta_type = "text_delta"
    THEN Handled([l EXCEPT !.text_buffer = push_str(@, ev.index, ev.text)],
                 <<>>)
    ELSE Handled(l, <<>>)

\* StreamEvent::ContentBlockStart
content_block_start(l, ev) ==
    IF ev.block_type = "tool_use"
    THEN Handled([l EXCEPT !.pending_tools = insert(@, ev.id, ev.name)], <<>>)
    ELSE Handled(l, <<>>)

\* the blocks of an assistant message, in order
RECURSIVE assistant_blocks(_, _)
assistant_blocks(l, content) ==
    IF content = <<>> THEN Handled(l, <<>>)
    ELSE LET block == Head(content)
             h == IF block.block = "Text"
                  THEN Handled(IF block.text # <<>>
                               THEN [l EXCEPT !.final_result = block.text]
                               ELSE l, <<>>)
                  ELSE IF block.block = "ToolUse"
                  THEN Handled([l EXCEPT !.pending_tools =
                                    insert(@, block.id, block.name)],
                               <<ToolCall(block.id, block.name)>>)
                  ELSE IF block.block = "Thinking" /\ block.thinking # <<>>
                  THEN Handled(l, <<Thinking(block.thinking, TRUE)>>)
                  ELSE Handled(l, <<>>)
             rest == assistant_blocks(h.l, Tail(content))
         IN  Handled(rest.l, h.out \o rest.out)

\* the blocks of a user message, in order
RECURSIVE user_blocks(_, _)
user_blocks(l, content) ==
    IF content = <<>> THEN Handled(l, <<>>)
    ELSE LET block == Head(content)
             out == IF block.block = "ToolResult"
                    THEN <<ToolResult(block.tool_use_id,
                                      get_or(l.pending_tools,
                                             block.tool_use_id, "unknown"),
                                      block.content)>>
                    ELSE <<>>
             rest == user_blocks(l, Tail(content))
         IN  Handled(rest.l, out \o rest.out)

\* ClaudeEvent::Result, before the break
result_event(l, ev) ==
    IF result_is_error(ev.is_error, ev.subtype)
    THEN Handled([l EXCEPT !.had_error = TRUE,
                           !.final_result = IF ev.result = <<>>
                                            THEN <<"Unknown error">>
                                            ELSE ev.result], <<>>)
    ELSE Handled(IF ev.result # <<>>
                 THEN [l EXCEPT !.final_result = ev.result] ELSE l, <<>>)

\* whether the event ends the read loop (the other definition has none end it)
breaks_never(ev) == FALSE
breaks(ev) == ev.type = "result"

\* one line of the child's stdout, handled
claude_event(l, ev) ==
    LET h == IF ev.type = "content_block_delta" THEN content_block_delta(l, ev)
             ELSE IF ev.type = "content_block_start"
             THEN content_block_start(l, ev)
             ELSE IF ev.type = "assistant" THEN assistant_blocks(l, ev.content)
             ELSE IF ev.type = "user" THEN user_blocks(l, ev.content)
             ELSE IF ev.type = "result" THEN result_event(l, ev)
             ELSE Handled(l, <<>>)
    IN  Handled(IF breaks(ev) THEN [h.l EXCEPT !.pc = "wait"] ELSE h.l, h.out)

StreamFrame == <<runner, tasks, nmsgs, nturns, started, returned, mission_cmd,
                 delivered, now, files>>

\* the turn reaches the loop: the maps are created
ClaudeLoopEnter ==
    /\ locals = NoLocals
    /\ \E order \in HashOrders : locals' = ClaudeLocals(order)
    /\ last' = Ret("claude_enter", TRUE, <<>>)
    /\ UNCHANGED <<StreamFrame, tripped, events, args>>

\* the owner of the runner cancels the turn's token
TokenCancel ==
    /\ tripped = {}
    /\ tripped' = {1}
    /\ last' = Ret("cancel", TRUE, <<>>)
    /\ UNCHANGED <<StreamFrame, events, args, locals>>

\* the line branch of the select!: Ok(Some(line)).  The warning about a line
\* that does not parse evaluates its arguments when the subscriber has the
\* WARN level enabled, and the task panics when cutting the line does
ClaudeLine ==
    /\ locals # NoLocals
    /\ locals.pc = "loop"
    /\ Len(args) < MaxStream
    /\ \E ev \in ClaudeLines, warn_enabled \in BOOLEAN :
         LET h == claude_event(locals, ev)
             panics == /\ ev.type = "skipped" /\ ev.line # <<>>
                       /\ warn_enabled /\ WarnPanics[ev.line]
         IN  /\ args' = Append(args, ev)
             /\ locals' = IF panics THEN [locals EXCEPT !.pc = "panicked"]
                           ELSE h.l
             /\ events' = IF panics THEN events ELSE events \o h.out
    /\ last' = Ret("claude_line", TRUE, <<>>)
    /\ UNCHANGED <<StreamFrame, tripped>>

\* the line branch of the select!: Ok(None) or Err
ClaudeEof ==
    /\ locals # NoLocals
    /\ locals.pc = "loop"
    /\ locals' = [locals EXCEPT !.pc = "wait"]
    /\ last' = Ret("claude_eof", TRUE, <<>>)
    /\ UNCHANGED <<StreamFrame, tripped, events, args>>

\* the cancellation branch of the select!
ClaudeLoopCancelled ==
    /\ locals # NoLocals
    /\ locals.pc = "loop"
    /\ 1 \in tripped
    /\ locals' = [locals EXCEPT
                      !.pc = "returned",
                      !.result = AgentResultFailure(<<"Cancelled">>,
                                                    "Cancelled")]
    /\ last' = Ret("claude_cancelled", TRUE, <<>>)
    /\ UNCHANGED <<StreamFrame, tripped, events, args>>

\* after the loop: child.wait() and the result
ClaudeLoopReturn ==
    /\ locals # NoLocals
    /\ locals.pc = "wait"
    /\ locals' = [locals EXCEPT !.pc = "returned", !.result = ClaudeResult(locals)]
    /\ last' = Ret("claude_return", TRUE, <<>>)
    /\ UNCHANGED <<StreamFrame, tripped, events, args>>

StreamInit == Init /\ backend_id = "claudecode"

StreamNext ==
    \/ ClaudeLoopEnter
    \/ TokenCancel
    \/ ClaudeLine
    \/ ClaudeEof
    \/ ClaudeLoopCancelled
    \/ ClaudeLoopReturn

StreamSpec == StreamInit /\ [][StreamNext]_vars

\* C22: in the Claude adapter the ToolCall events sent are, in order, the
\* ToolUse blocks of the assistant messages read, the ToolResult events sent
\* are, in order, the ToolResult blocks of the user messages read, and a Result
\* event is the last line read: the loop is over once it has been handled.
C22_MappingOneToOne ==
    LET RECURSIVE blocks_of(_, _, _)
        blocks_of(lines, type, block) ==
            IF lines = <<>> THEN <<>>
            ELSE (IF Head(lines).type = type
                  THEN SelectSeq(Head(lines).content,
                                 LAMBDA b : b.block = block)
                  ELSE <<>>) \o blocks_of(Tail(lines), type, block)
        uses == blocks_of(args, "assistant", "ToolUse")
        results == blocks_of(args, "user", "ToolResult")
        calls == SelectSeq(events, LAMBDA e : e.kind = "ToolCall")
        answers == SelectSeq(events, LAMBDA e : e.kind = "ToolResult")
    IN  locals # NoLocals =>
          /\ Len(calls) = Len(uses)
          /\ \A i \in 1..Len(uses) :
                 /\ calls[i].tool_call_id = uses[i].id
                 /\ calls[i].name = uses[i].name
          /\ Len(answers) = Len(results)
          /\ \A i \in 1..Len(results) :
                 /\ answers[i].tool_call_id = results[i].tool_use_id
                 /\ answers[i].result = results[i].content
          /\ \A i \in 1..Len(args) :
                 args[i].type = "result" =>
                     /\ i = Len(args)
                     /\ locals.pc # "loop"

\* a stream with two ToolUse blocks in one message, a ToolResult block and
\* then a Result event has been read
C22_Witness ==
    /\ locals # NoLocals
    /\ Len(args) = 3
    /\ args[1].type = "assistant" /\ Len(args[1].content) = 2
    /\ args[1].content[1].block = "ToolUse"
    /\ args[2].type = "user" /\ args[2].content[1].block = "ToolResult"
    /\ args[3].type = "result"
    /\ Len(events) = 3
    /\ locals.pc = "returned"

\* C23: in a Claude turn every cumulative Thinking event (done = false) sent is
\* at least as long as each one sent before it, and a thinking delta that
\* leaves the total buffered length as it was sends none.
C23_CumulativeMonotone ==
    [][last'.op = "claude_line" =>
           LET cumulative(e) == e.kind = "Thinking" /\ ~e.done
               new == SubSeq(events', Len(events) + 1, Len(events'))
               ev == args'[Len(args')]
               total(l) == Len(join(values(l.thinking_buffer, l.hash_order)))
               before == locals
               after == locals'
           IN  /\ SubSeq(events', 1, Len(events)) = events
               /\ \A i \in 1..Len(new) : \A j \in 1..Len(events) :
                      cumulative(new[i]) /\ cumulative(events[j]) =>
                          Len(events[j].content) <= Len(new[i].content)
               /\ (/\ ev.type = "content_block_delta"
                   /\ ev.delta_type = "thinking_delta"
                   /\ total(after) = total(before)) =>
                      \A i \in 1..Len(new) : ~cumulative(new[i])]_vars

\* two cumulative Thinking events of growing length over both indices came
\* after a thinking delta with an empty text that sent nothing
C23_Witness ==
    /\ locals # NoLocals
    /\ Len(args) = 3
    /\ args[1] = Delta(0, "thinking_delta", <<>>)
    /\ Len(events) = 2
    /\ \A i \in 1..2 : events[i].kind = "Thinking" /\ ~events[i].done
    /\ Len(events[1].content) < Len(events[2].content)
    /\ DOMAIN locals.thinking_buffer = Indexes

\* C24: the content of every cumulative Thinking event of a Claude turn is the
\* thinking buffers received so far joined in ascending order of their
\* content-block index.
C24_AscendingIndexOrder ==
    [][last'.op = "claude_line" =>
           LET new == SubSeq(events', Len(events) + 1, Len(events'))
               buf == locals'.thinking_buffer
               ascending == join(values(buf, <<0, 1>>))
           IN  \A i \in 1..Len(new) :
                   new[i].kind = "Thinking" /\ ~new[i].done =>
                       new[i].content = ascending]_vars

\* C31: a line that does not parse is never fatal to a Claude turn: the turn
\* task does not panic on it, and the events sent and the result returned are
\* those of the same stream without the empty lines and the lines that do not
\* parse.
C31_SkippedLinesInvisible ==
    LET RECURSIVE replay(_, _)
        replay(l, lines) ==
            IF lines = <<>> THEN Handled(l, <<>>)
            ELSE LET h == claude_event(l, Head(lines))
                     rest == replay(h.l, Tail(lines))
                 IN  Handled(rest.l, h.out \o rest.out)
        kept == SelectSeq(args, LAMBDA ev : ev.type # "skipped")
        r == replay(ClaudeLocals(locals.hash_order), kept)
    IN  locals # NoLocals =>
          /\ locals.pc # "panicked"
          /\ events = r.out
          /\ (locals.pc = "returned"
              /\ locals.result.terminal_reason # "Cancelled") =>
                 locals.result = ClaudeResult(r.l)

\* C32: in a Claude turn a content-block delta of type text_delta sends no
\* event, an assistant message sends one event for each of its ToolUse blocks
\* and non-empty Thinking blocks and none for a Text block, the content of a
\* cumulative Thinking event is made of the thinking deltas alone, and every
\* event the adapter sends is a Thinking, ToolCall or ToolResult event.
C32_TextNeverEmitted ==
    [][(last'.op = "claude_line" /\ locals'.pc # "panicked") =>
           LET new == SubSeq(events', Len(events) + 1, Len(events'))
               ev == args'[Len(args')]
               RECURSIVE thinking_of(_)
               thinking_of(lines) ==
                   IF lines = <<>> THEN <<>>
                   ELSE LET line == lines[Len(lines)]
                            before == thinking_of(SubSeq(lines, 1,
                                                         Len(lines) - 1))
                        IN  IF /\ line.type = "content_block_delta"
                               /\ line.delta_type = "thinking_delta"
                            THEN push_str(before, line.index, line.text)
                            ELSE before
               thought == join(values(thinking_of(args'), locals.hash_order))
           IN  /\ (ev.type = "content_block_delta"
                   /\ ev.delta_type = "text_delta") => new = <<>>
               /\ ev.type = "assistant" =>
                      Len(new) = Len(SelectSeq(ev.content, LAMBDA b :
                                        \/ b.block = "ToolUse"
                                        \/ b.block = "Thinking"
                                           /\ b.thinking # <<>>))
               /\ \A i \in 1..Len(new) :
                      /\ new[i].kind \in {"Thinking", "ToolCall", "ToolResult"}
                      /\ (new[i].kind = "Thinking" /\ ~new[i].done) =>
                             new[i].content = thought]_vars

\* a text delta and an assistant message of one Text block were read around
\* a thinking delta, and the one event sent is the Thinking event of the latter
C32_Witness ==
    /\ locals # NoLocals
    /\ Len(args) = 3
    /\ args[1] = Delta(0, "text_delta", <<"a">>)
    /\ args[2] = Delta(0, "thinking_delta", <<"a">>)
    /\ args[3] = AssistantEvent(<<TextBlock(<<"h", "i">>)>>)
    /\ events = <<Thinking(<<"a">>, FALSE)>>
    /\ locals.text_buffer # <<>>

(* ----------------------------- CLI bootstrap --------------------------- *)
\* ensure_claudecode_cli_available and ensure_opencode_cli_available at the
\* head of a turn.  files holds the programs that can be found in the
\* workspace, args the environment variable of the auto-install flag and the
\* programs found when the turn began, locals the position in the function,
\* what the installer did and what the function and the turn returned.

\* the programs a workspace can hold
BootPaths == {<<"claude">>, <<"npm">>, <<"opencode">>,
              <<"$HOME/.opencode/bin/opencode">>, <<"curl">>, <<"/bin/wget">>}

\* std::env::var of the flag: unset, or set to a string of characters
Unset == [set |-> FALSE, value |-> <<>>]
SetTo(value) == [set |-> TRUE, value |-> value]
FlagValues ==
    {Unset, SetTo(<<"1">>), SetTo(<<"0">>), SetTo(<<" ", "O", "n", "\n">>),
     SetTo(<<"n", "o">>), SetTo(<<>>)}

\* str::trim
RECURSIVE trim_start(_)
trim_start(str) ==
    IF str # <<>> /\ Head(str) \in {" ", "\n"} THEN trim_start(Tail(str))
    ELSE str
RECURSIVE trim_end(_)
trim_end(str) ==
    IF str # <<>> /\ str[Len(str)] \in {" ", "\n"}
    THEN trim_end(SubSeq(str, 1, Len(str) - 1))
    ELSE str
trim(str) == trim_end(trim_start(str))

\* env_var_bool(name, default) for a variable read as `var` (the other
\* definition reads every set variable as true)
env_var_set(var, default) == IF var.set THEN TRUE ELSE default
env_var_bool(var, default) ==
    IF var.set
    THEN to_lowercase(trim(var.value)) \in
             {<<"1">>, <<"t", "r", "u", "e">>, <<"y", "e", "s">>, <<"y">>,
              <<"o", "n">>}
    ELSE default

\* command_available: the program is found in the workspace
command_available(fs, program) == program \in fs

opencode_binary_available(fs) ==
    \/ command_available(fs, <<"opencode">>)
    \/ command_available(fs, <<"/usr/local/bin/opencode">>)
    \/ command_available(fs, <<"$HOME/.opencode/bin/opencode">>)

\* resolve_opencode_installer_fetcher(..).is_some()
resolve_opencode_installer_fetcher(fs) ==
    \E candidate \in {<<"curl">>, <<"/usr/bin/curl">>, <<"/bin/curl">>,
                      <<"wget">>, <<"/usr/bin/wget">>, <<"/bin/wget">>} :
        command_available(fs, candidate)

\* the probe for the CLI of the backend and for what its installer needs
cli_available(fs) ==
    IF backend_id = "claudecode" THEN command_available(fs, <<"claude">>)
    ELSE opencode_binary_available(fs)
installer_available(fs) ==
    IF backend_id = "claudecode" THEN command_available(fs, <<"npm">>)
    ELSE resolve_opencode_installer_fetcher(fs)

\* what the installer leaves behind when it puts the CLI in place
Installed ==
    IF backend_id = "claudecode" THEN {<<"claude">>}
    ELSE {<<"$HOME/.opencode/bin/opencode">>, <<"/usr/local/bin/opencode">>}

BootLocals ==
    [pc |-> "probe", installer |-> "not_run", ensured |-> "pending",
     spawned |-> FALSE, result |-> NoResult]

BootFrame == <<runner, tasks, tripped, events, nmsgs, nturns, started,
               returned, mission_cmd, delivered, now>>

\* the turn reaches the bootstrap of its backend's CLI
BootEnter ==
    /\ locals = NoLocals
    /\ locals' = BootLocals
    /\ last' = Ret("ensure_enter", TRUE, <<>>)
    /\ UNCHANGED <<BootFrame, files, args>>

\* ensure_*_cli_available up to the installer: the first probe, the flag and
\* the probe for what the installer needs
BootProbe ==
    /\ locals.pc = "probe"
    /\ locals' = [locals EXCEPT
           !.pc = IF ~cli_available(files)
                     /\ env_var_bool(args.flag, TRUE)
                     /\ installer_available(files)
                  THEN "install" ELSE "ensured",
           !.ensured = IF cli_available(files) THEN "Ok"
                       ELSE IF ~env_var_bool(args.flag, TRUE) THEN "Err"
                       ELSE IF ~installer_available(files) THEN "Err"
                       ELSE @]
    /\ last' = Ret("ensure_probe", TRUE, <<>>)
    /\ UNCHANGED <<BootFrame, files, args>>

\* the installer runs in the workspace: it cannot be started, or it exits
\* with or without success, in each case with or without the CLI in place
BootInstall ==
    /\ locals.pc = "install"
    /\ \E outcome \in {"spawn_failed", "failed", "succeeded"} :
         /\ locals' = [locals EXCEPT
                !.installer = outcome,
                !.pc = IF outcome = "succeeded" THEN "reprobe" ELSE "ensured",
                !.ensured = IF outcome = "succeeded" THEN @ ELSE "Err"]
         /\ \/ UNCHANGED files
            \/ outcome # "spawn_failed" /\ files' = files \cup Installed
    /\ last' = Ret("ensure_install", TRUE, <<>>)
    /\ UNCHANGED <<BootFrame, args>>

\* the probe after the installer
BootReprobe ==
    /\ locals.pc = "reprobe"
    /\ locals' = [locals EXCEPT
           !.pc = "ensured",
           !.ensured = IF cli_available(files) THEN "Ok" ELSE "Err"]
    /\ last' = Ret("ensure_reprobe", TRUE, <<>>)
    /\ UNCHANGED <<BootFrame, files, args>>

\* the turn after the bootstrap: an Err is returned as a failure
BootFail ==
    /\ locals.pc = "ensured"
    /\ locals.ensured = "Err"
    /\ locals' = [locals EXCEPT
           !.pc = "returned",
           !.result = AgentResultFailure(<<"not found">>, "LlmError")]
    /\ last' = Ret("ensure_failed", TRUE, <<>>)
    /\ UNCHANGED <<BootFrame, files, args>>

\* the turn after the bootstrap: after Ok it goes on to spawn the CLI
BootSpawn ==
    /\ locals.pc = "ensured"
    /\ locals.ensured = "Ok"
    /\ locals' = [locals EXCEPT !.pc = "loop", !.spawned = TRUE]
    /\ last' = Ret("ensure_spawned", TRUE, <<>>)
    /\ UNCHANGED <<BootFrame, files, args>>

BootInit ==
    /\ state = "Running"
    /\ queue = <<>>
    /\ history = <<>>
    /\ cancel_token = 1
    /\ running_handle = 1
    /\ explicitly_completed = FALSE
    /\ backend_id \in {"claudecode", "opencode"}
    /\ last_activity = 0
    /\ deliverables = {}
    /\ mission_cmd = [buf |-> <<>>, rx_alive |-> TRUE]
    /\ delivered = <<>>
    /\ now = 0
    /\ files \in SUBSET BootPaths
    /\ args \in [flag : FlagValues, found : {files}]
    /\ locals = NoLocals
    /\ tasks = {}
    /\ tripped = {}
    /\ events = <<>>
    /\ nmsgs = 1
    /\ nturns = 1
    /\ started = <<1>>
    /\ returned = <<>>
    /\ last = Ret("start_next", TRUE, <<>>)

BootNext ==
    \/ BootEnter
    \/ BootProbe
    \/ BootInstall
    \/ BootReprobe
    \/ BootFail
    \/ BootSpawn

BootSpec == BootInit /\ [][BootNext]_vars

\* C25: the bootstrap returns Ok exactly when the binary was there at the
\* first probe, or the flag allows installing, what the installer needs is
\* there, the installer exited successfully and the binary is there
\* afterwards; the installer is not run when the binary was there or the flag
\* is off; and after an error the turn is a failure with terminal reason
\* LlmError and the CLI was never spawned.
C25_OkIffBinaryConfirmed ==
    LET claude == backend_id = "claudecode"
        there(fs) == IF claude THEN <<"claude">> \in fs
                     ELSE fs \cap {<<"opencode">>,
                                   <<"/usr/local/bin/opencode">>,
                                   <<"$HOME/.opencode/bin/opencode">>} # {}
        needed(fs) == IF claude THEN <<"npm">> \in fs
                      ELSE fs \cap {<<"curl">>, <<"/bin/wget">>} # {}
        enabled == ~args.flag.set \/
                   args.flag.value \in {<<"1">>, <<" ", "O", "n", "\n">>}
    IN  locals # NoLocals =>
          /\ locals.pc \in {"ensured", "returned", "loop"} =>
              /\ locals.ensured \in {"Ok", "Err"}
              /\ locals.ensured = "Ok" <=>
                     \/ there(args.found)
                     \/ /\ enabled
                        /\ needed(args.found)
                        /\ locals.installer = "succeeded"
                        /\ there(files)
          /\ there(args.found) \/ ~enabled => locals.installer = "not_run"
          /\ locals.pc = "returned" =>
                 /\ locals.ensured = "Err"
                 /\ ~locals.result.success
                 /\ locals.result.terminal_reason = "LlmError"
                 /\ ~locals.spawned
          /\ locals.spawned => locals.ensured = "Ok"

\* the binary was missing, the installer ran with success and the probe
\* after it found the binary: the CLI was spawned
C25_Witness ==
    /\ locals.pc = "loop"
    /\ locals.spawned
    /\ locals.installer = "succeeded"
    /\ args.flag = SetTo(<<" ", "O", "n", "\n">>)
    /\ backend_id = "opencode"
    /\ <<"opencode">> \notin args.found

(* ---------------------------- opencode.json ---------------------------- *)
\* write_opencode_config over a list of MCP server configurations.  args is
\* the list (each configuration has a name, an enabled flag and an endpoint,
\* which here is its place in the list), locals the position in the loop, the
\* used set and the mcp map, and files gains opencode.json at the end.

\* the longest list of configurations
MaxConfigs == 3

ServerNames ==
    {<<"a">>, <<"A">>, <<"a", "_", "2">>, <<"a", "-", "2">>, <<"a", "!">>}

Digits == <<"0", "1", "2", "3", "4", "5", "6", "7", "8", "9">>

\* Display of a non-negative integer
RECURSIVE Decimal(_)
Decimal(n) ==
    IF n < 10 THEN <<Digits[n + 1]>>
    ELSE Decimal(n \div 10) \o <<Digits[(n % 10) + 1]>>

\* char::is_alphanumeric on the characters in use
is_alphanumeric(c) ==
    \/ \E k \in 1..Len(UpperCase) : c = UpperCase[k] \/ c = LowerCase[k]
    \/ \E k \in 1..Len(Digits) : c = Digits[k]

\* sanitize_key
sanitize_key(name) ==
    LET kept == SelectSeq(name, LAMBDA c : is_alphanumeric(c) \/ c \in {"_", "-"})
        lower == to_lowercase(kept)
    IN  [i \in 1..Len(lower) |-> IF lower[i] = "-" THEN "_" ELSE lower[i]]

\* the loop of unique_key from candidate number i on
RECURSIVE unique_from(_, _, _)
unique_from(base, used, i) ==
    LET candidate == base \o <<"_">> \o Decimal(i)
    IN  IF candidate \notin used THEN candidate
        ELSE unique_from(base, used, i + 1)

\* unique_key: the key returned, which the caller's used set gains (the other
\* definition takes the first candidate without looking it up)
unique_key_first(base, used) ==
    IF base \notin used THEN base ELSE base \o <<"_">> \o Decimal(2)
unique_key(base, used) ==
    IF base \notin used THEN base ELSE unique_from(base, used, 2)

\* opencode_entry_from_mcp for an Http transport
opencode_entry_from_mcp(config) ==
    [type |-> "http", endpoint |-> config.endpoint, enabled |-> config.enabled]

\* the lists of configurations of the registry
ConfigLists ==
    {[i \in 1..Len(l) |-> [name |-> l[i].name, enabled |-> l[i].enabled,
                           endpoint |-> i]] :
         l \in UNION {[1..n -> [name : ServerNames, enabled : BOOLEAN]] :
                          n \in 0..MaxConfigs}}

ConfigLocals == [pc |-> "configs", i |-> 1, used |-> {}, mcp_map |-> <<>>]

ConfigFrame == <<runner, tasks, tripped, events, nmsgs, nturns, started,
                 returned, mission_cmd, delivered, now>>

\* write_opencode_config is entered: the map and the used set are empty
ConfigEnter ==
    /\ locals = NoLocals
    /\ locals' = ConfigLocals
    /\ last' = Ret("config_enter", TRUE, <<>>)
    /\ UNCHANGED <<ConfigFrame, files, args>>

\* one configuration of the list: skipped when disabled, else given a key
ConfigEntry ==
    /\ locals.pc = "configs"
    /\ locals.i <= Len(args)
    /\ LET config == args[locals.i]
           key == unique_key(sanitize_key(config.name), locals.used)
       IN  locals' =
               IF config.enabled
               THEN [locals EXCEPT
                        !.i = @ + 1,
                        !.used = @ \cup {key},
                        !.mcp_map = insert(@, key,
                                           opencode_entry_from_mcp(config))]
               ELSE [locals EXCEPT !.i = @ + 1]
    /\ last' = Ret("config_entry", TRUE, <<>>)
    /\ UNCHANGED <<ConfigFrame, files, args>>

\* after the loop the file is written
ConfigWrite ==
    /\ locals.pc = "configs"
    /\ locals.i > Len(args)
    /\ locals' = [locals EXCEPT !.pc = "written"]
    /\ files' = files \cup {<<"opencode.json">>}
    /\ last' = Ret("config_write", TRUE, <<>>)
    /\ UNCHANGED <<ConfigFrame, args>>

ConfigInit ==
    /\ state = "Queued"
    /\ queue = <<>>
    /\ history = <<>>
    /\ cancel_token = NoToken
    /\ running_handle = NoHandle
    /\ explicitly_completed = FALSE
    /\ backend_id = "opencode"
    /\ last_activity = 0
    /\ deliverables = {}
    /\ mission_cmd = [buf |-> <<>>, rx_alive |-> TRUE]
    /\ delivered = <<>>
    /\ now = 0
    /\ files = {}
    /\ args \in ConfigLists
    /\ locals = NoLocals
    /\ tasks = {}
    /\ tripped = {}
    /\ events = <<>>
    /\ nmsgs = 0
    /\ nturns = 0
    /\ started = <<>>
    /\ returned = <<>>
    /\ last = Ret("new", TRUE, <<>>)

ConfigNext ==
    \/ ConfigEnter
    \/ ConfigEntry
    \/ ConfigWrite

ConfigSpec == ConfigInit /\ [][ConfigNext]_vars

\* C26: the mcp map of opencode.json holds one entry for each enabled
\* configuration handled so far, that of the configuration itself: no key is
\* given twice and no entry is overwritten, whatever the names.
C26_KeysDistinct ==
    locals # NoLocals =>
        LET handled == {i \in 1..(locals.i - 1) : args[i].enabled}
            keys == DOMAIN locals.mcp_map
        IN  /\ Cardinality(keys) = Cardinality(handled)
            /\ \A i \in handled : \E k \in keys :
                   locals.mcp_map[k].endpoint = i
            /\ keys = locals.used

\* the file has been written for three enabled servers named a, A and a_2:
\* their keys are a, a_2 and a_2_2
C26_Witness ==
    /\ locals # NoLocals
    /\ locals.pc = "written"
    /\ Len(args) = 3
    /\ args[1].name = <<"a">> /\ args[2].name = <<"A">>
    /\ args[3].name = <<"a", "_", "2">>
    /\ \A i \in 1..3 : args[i].enabled
    /\ DOMAIN locals.mcp_map =
           {<<"a">>, <<"a", "_", "2">>, <<"a", "_", "2", "_", "2">>}
    /\ <<"opencode.json">> \in files

(* --------------------------- template_crypto --------------------------- *)
\* encrypt_string and decrypt_string.  Strings are sequences of characters,
\* "e_acute" standing for the one character U+00E9; bytes are 0..255.  args is
\* the key and the plaintext of the call, locals what the calls returned.

NONCE_LENGTH == 12
KEY_LENGTH == 32
TAG_LENGTH == 16

ENCRYPTED_PREFIX ==
    <<"<", "e", "n", "c", "r", "y", "p", "t", "e", "d", " ", "v", "=", "\"",
      "1", "\"", ">">>
ENCRYPTED_SUFFIX ==
    <<"<", "/", "e", "n", "c", "r", "y", "p", "t", "e", "d", ">">>

\* str::starts_with and str::ends_with
starts_with(str, prefix) ==
    Len(str) >= Len(prefix) /\ SubSeq(str, 1, Len(prefix)) = prefix
ends_with(str, suffix) ==
    /\ Len(str) >= Len(suffix)
    /\ SubSeq(str, Len(str) - Len(suffix) + 1, Len(str)) = suffix

is_encrypted(value) ==
    starts_with(value, ENCRYPTED_PREFIX) /\ ends_with(value, ENCRYPTED_SUFFIX)

\* extract_payload of a value that is_encrypted: &value[start..end] (the
\* other definition ends the slice one character early)
extract_payload_short(value) ==
    SubSeq(value, Len(ENCRYPTED_PREFIX) + 1,
           Len(value) - Len(ENCRYPTED_SUFFIX) - 1)
extract_payload(value) ==
    SubSeq(value, Len(ENCRYPTED_PREFIX) + 1,
           Len(value) - Len(ENCRYPTED_SUFFIX))

\* the UTF-8 encoding of the characters in use
Utf8Of ==
    [c \in {"<", ">", "/", " ", "=", "\"", "1", "a", "c", "d", "e", "n", "p",
            "r", "t", "v", "y", "e_acute"} |->
        CASE c = "<" -> <<60>> [] c = ">" -> <<62>> [] c = "/" -> <<47>>
          [] c = " " -> <<32>> [] c = "=" -> <<61>> [] c = "\"" -> <<34>>
          [] c = "1" -> <<49>> [] c = "a" -> <<97>> [] c = "c" -> <<99>>
          [] c = "d" -> <<100>> [] c = "e" -> <<101>> [] c = "n" -> <<110>>
          [] c = "p" -> <<112>> [] c = "r" -> <<114>> [] c = "t" -> <<116>>
          [] c = "v" -> <<118>> [] c = "y" -> <<121>>
          [] c = "e_acute" -> <<195, 169>>]

\* str::as_bytes
RECURSIVE as_bytes(_)
as_bytes(str) ==
    IF str = <<>> THEN <<>> ELSE Utf8Of[Head(str)] \o as_bytes(Tail(str))

Ok(value) == [ok |-> TRUE, value |-> value]
Err(error) == [ok |-> FALSE, value |-> <<error>>]

\* String::from_utf8
RECURSIVE from_utf8(_)
from_utf8(bytes) ==
    IF bytes = <<>> THEN Ok(<<>>)
    ELSE LET fits(c) == /\ Len(bytes) >= Len(Utf8Of[c])
                        /\ SubSeq(bytes, 1, Len(Utf8Of[c])) = Utf8Of[c]
         IN  IF \E c \in DOMAIN Utf8Of : fits(c)
             THEN LET c == CHOOSE c \in DOMAIN Utf8Of : fits(c)
                      rest == from_utf8(SubSeq(bytes, Len(Utf8Of[c]) + 1,
                                               Len(bytes)))
                  IN  IF rest.ok THEN Ok(<<c>> \o rest.value) ELSE rest
             ELSE Err("Invalid UTF-8")

\* the alphabet of the standard base64 engine
Base64Alphabet == UpperCase \o LowerCase \o Digits \o <<"+", "/">>
Base64Index ==
    [c \in {Base64Alphabet[k] : k \in 1..64} |->
        (CHOOSE k \in 1..64 : Base64Alphabet[k] = c) - 1]
Base64Char(v) == Base64Alphabet[v + 1]

\* BASE64.encode
RECURSIVE base64_encode(_)
base64_encode(bytes) ==
    IF bytes = <<>> THEN <<>>
    ELSE IF Len(bytes) = 1
    THEN <<Base64Char(bytes[1] \div 4), Base64Char((bytes[1] % 4) * 16),
           "=", "=">>
    ELSE IF Len(bytes) = 2
    THEN <<Base64Char(bytes[1] \div 4),
           Base64Char((bytes[1] % 4) * 16 + bytes[2] \div 16),
           Base64Char((bytes[2] % 16) * 4), "=">>
    ELSE <<Base64Char(bytes[1] \div 4),
           Base64Char((bytes[1] % 4) * 16 + bytes[2] \div 16),
           Base64Char((bytes[2] % 16) * 4 + bytes[3] \div 64),
           Base64Char(bytes[3] % 64)>>
         \o base64_encode(SubSeq(bytes, 4, Len(bytes)))

\* BASE64.decode: padded, canonical input only
RECURSIVE base64_decode(_)
base64_decode(str) ==
    IF str = <<>> THEN Ok(<<>>)
    ELSE IF Len(str) < 4 THEN Err("Invalid base64")
    ELSE LET v(k) == Base64Index[str[k]]
             known(k) == str[k] \in DOMAIN Base64Index
             final == Len(str) = 4
         IN  IF known(1) /\ known(2) /\ known(3) /\ known(4)
             THEN LET rest == base64_decode(SubSeq(str, 5, Len(str)))
                  IN  IF rest.ok
                      THEN Ok(<<v(1) * 4 + v(2) \div 16,
                                (v(2) % 16) * 16 + v(3) \div 4,
                                (v(3) % 4) * 64 + v(4)>> \o rest.value)
                      ELSE rest
             ELSE IF final /\ known(1) /\ known(2) /\ known(3)
                     /\ str[4] = "=" /\ v(3) % 4 = 0
             THEN Ok(<<v(1) * 4 + v(2) \div 16,
                       (v(2) % 16) * 16 + v(3) \div 4>>)
             ELSE IF final /\ known(1) /\ known(2) /\ str[3] = "="
                     /\ str[4] = "=" /\ v(2) % 16 = 0
             THEN Ok(<<v(1) * 4 + v(2) \div 16>>)
             ELSE Err("Invalid base64")

RECURSIVE Sum(_)
Sum(bytes) == IF bytes = <<>> THEN 0 ELSE Head(bytes) + Sum(Tail(bytes))

\* Aes256Gcm, by a stand-in with its contract: a keystream of the key and the
\* nonce added to the text byte by byte, followed by a tag of TAG_LENGTH bytes
\* that depends on the key, the nonce and the text
keystream(key, nonce, i) ==
    (key[((i - 1) % KEY_LENGTH) + 1] + nonce[((i - 1) % NONCE_LENGTH) + 1] + i)
        % 256
tag(key, nonce, text) ==
    [j \in 1..TAG_LENGTH |->
        (Sum(key) + 3 * Sum(nonce) + 5 * Sum(text) + 7 * Len(text) + j) % 256]

\* cipher.encrypt(nonce, plaintext)
cipher_encrypt(key, nonce, text) ==
    [i \in 1..Len(text) |-> (text[i] + keystream(key, nonce, i)) % 256]
        \o tag(key, nonce, text)

\* cipher.decrypt(nonce, ciphertext)
cipher_decrypt(key, nonce, ciphertext) ==
    IF Len(ciphertext) < TAG_LENGTH THEN Err("aead::Error")
    ELSE LET n == Len(ciphertext) - TAG_LENGTH
             text == [i \in 1..n |->
                         (ciphertext[i] + 256 - keystream(key, nonce, i)) % 256]
         IN  IF SubSeq(ciphertext, n + 1, Len(ciphertext)) =
                    tag(key, nonce, text)
             THEN Ok(text) ELSE Err("aead::Error")

\* encrypt_string with the nonce that thread_rng gave
encrypt_string(key, nonce_bytes, plaintext) ==
    IF is_encrypted(plaintext) THEN Err("EncryptionFailed")
    ELSE LET ciphertext == cipher_encrypt(key, nonce_bytes,
                                          as_bytes(plaintext))
             payload == nonce_bytes \o ciphertext
         IN  Ok(ENCRYPTED_PREFIX \o base64_encode(payload)
                    \o ENCRYPTED_SUFFIX)

decrypt_string(key, value) ==
    IF ~is_encrypted(value) THEN Ok(value)
    ELSE LET payload == base64_decode(extract_payload(value))
         IN  IF ~payload.ok THEN Err("DecryptionFailed")
             ELSE IF Len(payload.value) < NONCE_LENGTH + 1
             THEN Err("DecryptionFailed")
             ELSE LET nonce_bytes == SubSeq(payload.value, 1, NONCE_LENGTH)
                      ciphertext == SubSeq(payload.value, NONCE_LENGTH + 1,
                                           Len(payload.value))
                      plaintext == cipher_decrypt(key, nonce_bytes, ciphertext)
                  IN  IF ~plaintext.ok THEN Err("DecryptionFailed")
                      ELSE IF ~from_utf8(plaintext.value).ok
                      THEN Err("DecryptionFailed")
                      ELSE from_utf8(plaintext.value)

\* two keys and two nonces
CryptoKeys == {[i \in 1..KEY_LENGTH |-> 7], [i \in 1..KEY_LENGTH |-> 8 * i - 1]}
Nonces == {[i \in 1..NONCE_LENGTH |-> 0], [i \in 1..NONCE_LENGTH |-> 21 * i]}

\* the values handed to the functions: empty, ASCII, not ASCII, and values
\* that carry the prefix, the suffix or both
Plaintexts ==
    {<<>>, <<"a">>, <<"e_acute">>, <<"a", "e_acute", "1">>,
     <<"e_acute", "e_acute">>, ENCRYPTED_PREFIX, ENCRYPTED_SUFFIX,
     ENCRYPTED_PREFIX \o ENCRYPTED_SUFFIX,
     ENCRYPTED_PREFIX \o <<"a">> \o ENCRYPTED_SUFFIX,
     <<"a">> \o ENCRYPTED_PREFIX \o ENCRYPTED_SUFFIX,
     ENCRYPTED_PREFIX \o ENCRYPTED_SUFFIX \o <<"a">>}

CryptoFrame == <<runner, tasks, tripped, events, nmsgs, nturns, started,
                 returned, mission_cmd, delivered, now, files, args>>

\* encrypt_string(key, plaintext)
EncryptString ==
    /\ locals = NoLocals
    /\ \E nonce_bytes \in Nonces :
         locals' = [pc |-> "encrypted",
                    encrypted |-> encrypt_string(args.key, nonce_bytes,
                                                 args.plaintext),
                    key |-> args.key,
                    decrypted |-> Err("none")]
    /\ last' = Ret("encrypt_string", TRUE, <<>>)
    /\ UNCHANGED CryptoFrame

\* decrypt_string(key, value) on what encrypt_string returned, with the same
\* key or another
DecryptString ==
    /\ locals.pc = "encrypted"
    /\ locals.encrypted.ok
    /\ \E key \in CryptoKeys :
         locals' = [locals EXCEPT
                        !.pc = "decrypted",
                        !.key = key,
                        !.decrypted = decrypt_string(key,
                                                     locals.encrypted.value)]
    /\ last' = Ret("decrypt_string", TRUE, <<>>)
    /\ UNCHANGED CryptoFrame

\* decrypt_string(key, value) on a value that was never encrypted
DecryptStored ==
    /\ locals = NoLocals
    /\ locals' = [pc |-> "read", encrypted |-> Err("none"), key |-> args.key,
                  decrypted |-> decrypt_string(args.key, args.plaintext)]
    /\ last' = Ret("decrypt_string", TRUE, <<>>)
    /\ UNCHANGED CryptoFrame

CryptoInit ==
    /\ state = "Queued"
    /\ queue = <<>>
    /\ history = <<>>
    /\ cancel_token = NoToken
    /\ running_handle = NoHandle
    /\ explicitly_completed = FALSE
    /\ backend_id = "opencode"
    /\ last_activity = 0
    /\ deliverables = {}
    /\ mission_cmd = [buf |-> <<>>, rx_alive |-> TRUE]
    /\ delivered = <<>>
    /\ now = 0
    /\ files = {}
    /\ args \in [key : CryptoKeys, plaintext : Plaintexts]
    /\ locals = NoLocals
    /\ tasks = {}
    /\ tripped = {}
    /\ events = <<>>
    /\ nmsgs = 0
    /\ nturns = 0
    /\ started = <<>>
    /\ returned = <<>>
    /\ last = Ret("new", TRUE, <<>>)

CryptoNext ==
    \/ EncryptString
    \/ DecryptString
    \/ DecryptStored

CryptoSpec == CryptoInit /\ [][CryptoNext]_vars

\* C27: for every key and every plaintext that is not wrapped, encrypt_string
\* succeeds, what it returns is_encrypted, and decrypt_string with the same
\* key on it returns the plaintext; encrypt_string on a wrapped value returns
\* an error.
C27_RoundTrip ==
    locals # NoLocals /\ locals.pc \in {"encrypted", "decrypted"} =>
        /\ is_encrypted(args.plaintext) => ~locals.encrypted.ok
        /\ ~is_encrypted(args.plaintext) =>
               /\ locals.encrypted.ok
               /\ is_encrypted(locals.encrypted.value)
               /\ locals.pc = "decrypted" /\ locals.key = args.key =>
                      /\ locals.decrypted.ok
                      /\ locals.decrypted.value = args.plaintext

\* a plaintext with a character that is not ASCII came back from
\* decrypt_string with the key it was encrypted with
C27_Witness ==
    /\ locals # NoLocals
    /\ locals.pc = "decrypted"
    /\ locals.key = args.key
    /\ args.plaintext = <<"a", "e_acute", "1">>
    /\ locals.decrypted = Ok(args.plaintext)
    /\ locals.encrypted.value # args.plaintext

\* C28: a start_next that returns true sends exactly one event, the
\* UserMessage with the id and the content of the message it took from the
\* front of the queue, queued = false and the runner's mission id, and a
\* start_next that returns false sends nothing; the events of the turn come
\* after that UserMessage, which is that of the last message started.
C28_UserMessageFirst ==
    [][/\ last'.op = "start_next" /\ last'.ok =>
              /\ queue # <<>>
              /\ events' = <<[kind |-> "UserMessage", id |-> Head(queue).id,
                              content |-> Head(queue).content,
                              queued |-> FALSE, mission_id |-> self_mission_id]>>
       /\ last'.op = "start_next" /\ ~last'.ok => events' = events
       /\ events' # <<>> =>
              /\ events'[1].kind = "UserMessage"
              /\ started' # <<>>
              /\ events'[1].id = started'[Len(started')]
              /\ \A i \in 2..Len(events') :
                     events'[i].kind # "UserMessage"]_vars

\* the second turn of a mission has sent a Thinking event after its
\* UserMessage, and a start_next while it runs returned false
C28_Witness ==
    /\ Len(started) = 2
    /\ Len(events) = 2
    /\ events[1] = UserMessage(QueuedMessage(started[2], ContentOf(started[2]),
                                            AgentOf(started[2])))
    /\ events[2].kind = "Thinking"
    /\ last = Ret("start_next", FALSE, <<>>)

(* ------------------- the OpenCode adapter's two readers ---------------- *)
\* run_opencode_turn from the spawn of the stderr-reader task to its return.
\* A line of stderr is a sequence of characters in which the words the
\* reader looks for ("TOOL.EXECUTE:", "TOOL.RESULT:", "Error:") and the
\* escape character ("ESC") are one element each.  args is the sequence of
\* stderr lines read so far, locals the local variables of the function and
\* of the reader task.

\* the longest sequence of stderr lines that is read
MaxStderr == 2

StderrLines ==
    {<<"TOOL.EXECUTE:", " ", "r">>,
     <<"x", " ", "TOOL.EXECUTE:", " ", "\"", "b", "\"">>,
     <<"TOOL.EXECUTE:", " ">>,
     <<"TOOL.RESULT:", " ", "o", "k">>,
     <<"TOOL.RESULT:", " ", "Error:">>,
     <<"Error:", " ", "x">>,
     <<"ESC", "[", "3", "1", "m", "h", "i", " ">>,
     <<" ">>}

\* strip_ansi_codes: the characters after ESC [ up to the next m are dropped
RECURSIVE skip_to_m(_)
skip_to_m(str) ==
    IF str = <<>> THEN <<>>
    ELSE IF Head(str) = "m" THEN Tail(str) ELSE skip_to_m(Tail(str))
RECURSIVE strip_ansi_codes(_)
strip_ansi_codes(input) ==
    IF input = <<>> THEN <<>>
    ELSE IF Head(input) = "ESC" /\ Len(input) >= 2 /\ input[2] = "["
    THEN strip_ansi_codes(skip_to_m(Tail(Tail(input))))
    ELSE <<Head(input)>> \o strip_ansi_codes(Tail(input))

\* str::find of a word that is in the line
find(str, word) == CHOOSE k \in 1..Len(str) :
                       str[k] = word /\ \A j \in 1..(k - 1) : str[j] # word

\* str::trim_matches('"')
RECURSIVE trim_matches_quote(_)
trim_matches_quote(str) ==
    IF str # <<>> /\ Head(str) = "\"" THEN trim_matches_quote(Tail(str))
    ELSE IF str # <<>> /\ str[Len(str)] = "\""
    THEN trim_matches_quote(SubSeq(str, 1, Len(str) - 1))
    ELSE str

\* &clean[name_start + 14..]: the slice starts one byte after the word, so
\* it is out of range when the line ends with the word (the other definition
\* gives the empty slice then)
name_part_or_empty(clean) ==
    Ok(SubSeq(clean, find(clean, "TOOL.EXECUTE:") + 2, Len(clean)))
name_part(clean) ==
    IF find(clean, "TOOL.EXECUTE:") = Len(clean) THEN Err("panic")
    ELSE Ok(SubSeq(clean, find(clean, "TOOL.EXECUTE:") + 2, Len(clean)))

\* format!("opencode-{}", Uuid::new_v4()): the n-th identifier generated
FreshId(n) == <<"opencode-", n>>

ErrorEvent(message) ==
    [kind |-> "Error", message |-> message, resumable |-> TRUE]

\* the local variables of run_opencode_turn and of the stderr reader
ReaderLocals ==
    [pc |-> "loop", reader |-> "running", last_tool_id |-> <<>>,
     last_tool_name |-> <<>>, uuids |-> 0, nread |-> 0, final_result |-> <<>>,
     had_error |-> FALSE, tripped_at_return |-> FALSE, result |-> NoResult]

\* the body of the reader's loop for one line: the local variables and the
\* events sent; a panic ends the task
stderr_line(l, line) ==
    LET clean == trim(strip_ansi_codes(line))
    IN  IF clean = <<>> THEN Handled(l, <<>>)
        ELSE IF Contains(clean, "TOOL.EXECUTE:")
        THEN IF ~name_part(clean).ok
             THEN Handled([l EXCEPT !.reader = "panicked"], <<>>)
             ELSE LET tool_name ==
                          trim_matches_quote(trim(name_part(clean).value))
                      tool_id == FreshId(l.uuids + 1)
                  IN  Handled([l EXCEPT !.uuids = @ + 1,
                                        !.last_tool_id = <<tool_id>>,
                                        !.last_tool_name = <<tool_name>>],
                              <<ToolCall(tool_id, tool_name),
                                Thinking(clean, FALSE)>>)
        ELSE IF Contains(clean, "TOOL.RESULT:")
        THEN LET fresh == l.last_tool_id = <<>>
                 tool_id == IF fresh THEN FreshId(l.uuids + 1)
                            ELSE l.last_tool_id[1]
                 tool_name == IF l.last_tool_name = <<>> THEN <<"unknown">>
                              ELSE l.last_tool_name[1]
             IN  Handled([l EXCEPT !.uuids = IF fresh THEN @ + 1 ELSE @],
                         <<ToolResult(tool_id, tool_name, clean),
                           Thinking(clean, FALSE)>>)
        ELSE IF Contains(clean, "SESSION.ERROR:") \/ Contains(clean, "Error:")
                \/ Contains(clean, "error:")
        THEN Handled(l, <<ErrorEvent(clean), Thinking(clean, FALSE)>>)
        ELSE Handled(l, <<Thinking(clean, FALSE)>>)

ReaderFrame == <<runner, tasks, nmsgs, nturns, started, returned, mission_cmd,
                 delivered, now, files>>

\* the child has been spawned: the stderr reader is spawned and the stdout
\* loop entered
ReaderEnter ==
    /\ locals = NoLocals
    /\ locals' = ReaderLocals
    /\ last' = Ret("opencode_enter", TRUE, <<>>)
    /\ UNCHANGED <<ReaderFrame, tripped, events, args>>

\* the reader task reads a line; after abort() was called on it, it can still
\* be seen to finish the line it was at
StderrLine ==
    /\ locals # NoLocals
    /\ locals.reader \in {"running", "aborting"}
    /\ Len(args) < MaxStderr
    /\ \E line \in StderrLines :
         LET h == stderr_line(locals, line)
         IN  /\ args' = Append(args, line)
             /\ locals' = IF locals.reader = "aborting"
                          THEN [h.l EXCEPT !.reader = "aborted"] ELSE h.l
             /\ events' = events \o h.out
    /\ last' = Ret("stderr_line", TRUE, <<>>)
    /\ UNCHANGED <<ReaderFrame, tripped>>

\* the reader task ends: stderr is closed or cannot be read, or the abort
\* takes effect
StderrEnd ==
    /\ locals # NoLocals
    /\ locals.reader \in {"running", "aborting"}
    /\ locals' = [locals EXCEPT
                      !.reader = IF @ = "running" THEN "done" ELSE "aborted"]
    /\ last' = Ret("stderr_end", TRUE, <<>>)
    /\ UNCHANGED <<ReaderFrame, tripped, events, args>>

\* the stdout branch of the select!: Ok(n)
StdoutChunk ==
    /\ locals # NoLocals
    /\ locals.pc = "loop"
    /\ locals.nread < MaxLines
    /\ \E chunk \in OpencodeChunks :
         /\ locals' = [locals EXCEPT
                !.nread = @ + 1,
                !.final_result = @ \o chunk,
                !.had_error = @ \/ Contains(chunk, "Error:")]
         /\ events' = Append(events, Thinking(chunk, FALSE))
    /\ last' = Ret("stdout_chunk", TRUE, <<>>)
    /\ UNCHANGED <<ReaderFrame, tripped, args>>

\* the stdout branch of the select!: Ok(0) or Err
StdoutEnd ==
    /\ locals # NoLocals
    /\ locals.pc = "loop"
    /\ locals' = [locals EXCEPT !.pc = "join"]
    /\ last' = Ret("stdout_end", TRUE, <<>>)
    /\ UNCHANGED <<ReaderFrame, tripped, events, args>>

\* the cancellation branch of the select!: the child is killed, the reader
\* aborted and the turn returns
ReaderCancelled ==
    /\ locals # NoLocals
    /\ locals.pc = "loop"
    /\ 1 \in tripped
    /\ locals' = [locals EXCEPT
           !.pc = "returned",
           !.reader = IF @ = "running" THEN "aborting" ELSE @,
           !.tripped_at_return = TRUE,
           !.result = AgentResultFailure(<<"Cancelled">>, "Cancelled")]
    /\ last' = Ret("opencode_cancelled", TRUE, <<>>)
    /\ UNCHANGED <<ReaderFrame, tripped, events, args>>

\* after the loop: the reader task has ended (handle.await), the child has
\* exited (child.wait()), the marker is sent and the result built
ReaderReturn ==
    /\ locals # NoLocals
    /\ locals.pc = "join"
    /\ locals.reader \in {"done", "panicked"}
    /\ \E exit_ok \in BOOLEAN, recovered \in StorageTexts :
         locals' = [locals EXCEPT
             !.pc = "returned",
             !.tripped_at_return = (1 \in tripped),
             !.result = OpencodeResult(locals, exit_ok, recovered)]
    /\ events' = Append(events, Thinking(<<>>, TRUE))
    /\ last' = Ret("opencode_return", TRUE, <<>>)
    /\ UNCHANGED <<ReaderFrame, tripped, args>>

ReaderInit == Init /\ backend_id = "opencode"

ReaderNext ==
    \/ ReaderEnter
    \/ TokenCancel
    \/ StderrLine
    \/ StderrEnd
    \/ StdoutChunk
    \/ StdoutEnd
    \/ ReaderCancelled
    \/ ReaderReturn

ReaderSpec == ReaderInit /\ [][ReaderNext]_vars

\* C29: an OpenCode turn that has returned and whose token was not tripped
\* has sent exactly one Thinking event with done = true and an empty
\* content, after every event of its stdout loop and of its stderr reader;
\* a turn whose token was tripped before it returned has sent none.
C29_OneDoneMarker ==
    locals # NoLocals /\ locals.pc = "returned" =>
        LET marks == {i \in 1..Len(events) :
                          events[i].kind = "Thinking" /\ events[i].done}
        IN  IF locals.tripped_at_return
            THEN marks = {}
            ELSE /\ marks = {Len(events)}
                 /\ events[Len(events)].content = <<>>

\* C30: a ToolResult sent for a TOOL.RESULT line has the id and the name of
\* the ToolCall sent for the last TOOL.EXECUTE line before it, or, when there
\* was none, an id no other event has and the name "unknown"; and each
\* stderr line that is not blank sends at most one ToolCall, ToolResult or
\* Error and after it exactly one Thinking event with done = false and the
\* line as its content.
C30_StderrLineMapping ==
    [][last'.op = "stderr_line" =>
           LET line == args'[Len(args')]
               clean == trim(strip_ansi_codes(line))
               new == SubSeq(events', Len(events) + 1, Len(events'))
               calls == SelectSeq(events, LAMBDA e : e.kind = "ToolCall")
           IN  /\ SubSeq(events', 1, Len(events)) = events
               /\ clean # <<>> =>
                      /\ Len(new) \in {1, 2}
                      /\ new[Len(new)] = Thinking(clean, FALSE)
                      /\ Len(new) = 2 =>
                             new[1].kind \in {"ToolCall", "ToolResult", "Error"}
               /\ \A i \in 1..Len(new) :
                      new[i].kind = "ToolResult" =>
                          IF calls = <<>>
                          THEN /\ new[i].name = <<"unknown">>
                               /\ \A j \in 1..Len(events) :
                                      events[j].kind = "ToolResult" =>
                                          events[j].tool_call_id #
                                              new[i].tool_call_id
                          ELSE /\ new[i].tool_call_id =
                                      calls[Len(calls)].tool_call_id
                               /\ new[i].name = calls[Len(calls)].name]_vars

\* C35: the turn started for a queued message that carries an agent override
\* runs with that agent, and the turn of a message that carries none runs
\* with the agent override of the mission.
C35_MessageAgentHonoured ==
    \A t \in tasks :
        t.agent_override = IF AgentOf(t.msg_id) # <<>> THEN AgentOf(t.msg_id)
                           ELSE self_agent_override

\* C36: each message passed to queue_message is in exactly one place: in the
\* pending queue, the input of the turn whose handle the runner holds, or a
\* user entry of the history.
C36_NoMessageLost ==
    \A id \in 1..nmsgs :
        LET queued == {i \in 1..Len(queue) : queue[i].id = id}
            running == {t \in tasks : t.id = running_handle /\ t.msg_id = id}
            recorded == {i \in 1..Len(history) :
                             history[i] = <<"user", ContentOf(id)>>}
        IN  Cardinality(queued) + Cardinality(running)
                + Cardinality(recorded) = 1

\* C37: a check_health made right after a start_next that returned true does
\* not return Stalled, however long the runner was idle before.
C37_FreshTurnNotStalled ==
    [][(last.op = "start_next" /\ last.ok /\ last'.op = "check_health") =>
           last'.val[1].kind # "Stalled"]_vars

\* C38: check_health does not return MissingDeliverables for a runner whose
\* poll_completion has not returned a turn yet.
C38_MissingOnlyAfterATurn ==
    (last.op = "check_health" /\ returned = <<>>) =>
        last.val[1].kind # "MissingDeliverables"

(* ------------------------ OpenCode storage fallback --------------------- *)
\* load_latest_opencode_assistant_text over a message directory and the part
\* directories of its messages.  args holds the two listings in the order in
\* which read_dir gives the entries, locals the local variables of the
\* function; an Option is <<>> for None and <<x>> for Some(x).

\* the most part files in a listing
MaxParts == 2

Json == <<"j", "s", "o", "n">>
FileName(stem, ext) == <<stem, ".">> \o ext

\* Path::extension: the text after the last dot of the file name
extension(name) ==
    LET dots == {i \in 2..Len(name) : name[i] = "."}
    IN  IF dots = {} THEN <<>>
        ELSE <<SubSeq(name, (CHOOSE i \in dots : \A j \in dots : j <= i) + 1,
                      Len(name))>>

\* the bytes of the characters of the file names
Ascii ==
    [c \in {".", "a", "b", "c", "j", "n", "o", "s", "t", "x"} |->
        CASE c = "." -> 46 [] c = "a" -> 97 [] c = "b" -> 98 [] c = "c" -> 99
          [] c = "j" -> 106 [] c = "n" -> 110 [] c = "o" -> 111
          [] c = "s" -> 115 [] c = "t" -> 116 [] c = "x" -> 120]

\* Ord::cmp: "Less", "Equal" or "Greater", of integers and of strings
int_cmp(a, b) == IF a < b THEN "Less" ELSE IF a = b THEN "Equal" ELSE "Greater"
RECURSIVE str_cmp(_, _)
str_cmp(a, b) ==
    IF a = <<>> /\ b = <<>> THEN "Equal"
    ELSE IF a = <<>> THEN "Less"
    ELSE IF b = <<>> THEN "Greater"
    ELSE IF Head(a) # Head(b) THEN int_cmp(Ascii[Head(a)], Ascii[Head(b)])
    ELSE str_cmp(Tail(a), Tail(b))

\* a message file: whether it reads and parses, and its role, time.created
\* and id fields
MessageFile(name, parses, role, created, id) ==
    [name |-> name, parses |-> parses, role |-> role, created |-> created,
     id |-> id]

\* a part file: whether it reads and parses, and its type, text and
\* time.start fields
PartFile(name, parses, type, text, start) ==
    [name |-> name, parses |-> parses, type |-> type, text |-> text,
     start |-> start]

\* the message files of a session: assistant messages m1 and m2, a second
\* record of m2 as recent as m1, a user message, a file that is no JSON
\* record and one that does not parse
MessageFiles ==
    {MessageFile(FileName("a", Json), TRUE, "assistant", 2, <<"m1">>),
     MessageFile(FileName("b", Json), TRUE, "assistant", 1, <<"m2">>),
     MessageFile(FileName("c", Json), TRUE, "assistant", 2, <<"m2">>),
     MessageFile(FileName("x", Json), TRUE, "user", 3, <<"m3">>),
     MessageFile(FileName("a", <<"t", "x", "t">>), TRUE, "assistant", 3,
                 <<"m3">>),
     MessageFile(FileName("o", Json), FALSE, "", 0, <<>>)}

\* the part files a directory can hold under one name: a text part with the
\* stem as its text, with a blank text or with an empty text, and a tool part,
\* each with a start time of 0 (or none) or 1
PartFilesNamed(stem) ==
    {PartFile(FileName(stem, Json), TRUE, type_text[1], type_text[2], start) :
         type_text \in {<<"text", <<stem>>>>, <<"text", <<" ">>>>,
                        <<"text", <<>>>>, <<"tool", <<stem>>>>},
         start \in {0, 1}}

PartStems == {"a", "b", "c"}

\* listings without two files of one name
Listings(entries, n) ==
    {l \in UNION {[1..k -> entries] : k \in 0..n} :
         \A i, j \in 1..Len(l) : l[i].name = l[j].name => i = j}

\* the listings of a message directory and of the part directory of m1
MessageListings == Listings(MessageFiles, 2)
PartListings == Listings(UNION {PartFilesNamed(stem) : stem \in PartStems},
                         MaxParts)

\* the part directory of a message: that of m2 holds one text part, m3 has
\* none
OtherParts == <<PartFile(FileName("o", Json), TRUE, "text", <<"o">>, 0)>>
parts_dir(id) ==
    IF id = "m1" THEN <<args.parts>>
    ELSE IF id = "m2" THEN <<OtherParts>>
    ELSE <<>>

FallbackLocals ==
    [pc |-> "messages", i |-> 1, latest_time |-> 0,
     latest_message_id |-> <<>>, message_id |-> <<>>, parts |-> <<>>,
     result |-> <<>>]

\* the comparison of parts.sort_by over (start, filename, text) (the other
\* definition compares the start times alone)
part_cmp_time(a, b) == int_cmp(a[1], b[1])
part_cmp(a, b) ==
    LET time_cmp == int_cmp(a[1], b[1])
    IN  IF time_cmp = "Equal" THEN str_cmp(a[2], b[2]) ELSE time_cmp

\* slice::sort_by: a stable sort
RECURSIVE sort_by(_)
sort_by(v) ==
    IF v = <<>> THEN <<>>
    ELSE LET sorted == sort_by(SubSeq(v, 1, Len(v) - 1))
             x == v[Len(v)]
             k == Len(SelectSeq(sorted,
                                LAMBDA y : part_cmp(y, x) # "Greater"))
         IN  SubSeq(sorted, 1, k) \o <<x>> \o SubSeq(sorted, k + 1, Len(sorted))

\* the texts of the sorted parts pushed onto one string, None when blank
combine(parts) ==
    LET combined == join([k \in 1..Len(parts) |-> sort_by(parts)[k][3]])
    IN  IF trim(combined) = <<>> THEN <<>> ELSE <<combined>>

FallbackFrame == <<runner, tasks, tripped, events, nmsgs, nturns, started,
                   returned, mission_cmd, delivered, now, files>>

\* the function is entered: the message directory exists or it does not
FallbackEnter ==
    /\ locals = NoLocals
    /\ \E exists \in BOOLEAN :
         locals' = IF exists THEN FallbackLocals
                   ELSE [FallbackLocals EXCEPT !.pc = "returned"]
    /\ last' = Ret("fallback_enter", TRUE, <<>>)
    /\ UNCHANGED <<FallbackFrame, args>>

\* one entry of the message directory
MessageEntry ==
    /\ locals # NoLocals
    /\ locals.pc = "messages"
    /\ locals.i <= Len(args.messages)
    /\ LET file == args.messages[locals.i]
       IN  locals' =
               IF extension(file.name) # <<Json>>
               THEN [locals EXCEPT !.i = @ + 1]
               ELSE IF ~file.parses
               THEN [locals EXCEPT !.pc = "returned"]
               ELSE IF file.role # "assistant"
               THEN [locals EXCEPT !.i = @ + 1]
               ELSE IF file.created >= locals.latest_time
               THEN [locals EXCEPT !.i = @ + 1,
                                   !.latest_time = file.created,
                                   !.latest_message_id = file.id]
               ELSE [locals EXCEPT !.i = @ + 1]
    /\ last' = Ret("message_entry", TRUE, <<>>)
    /\ UNCHANGED <<FallbackFrame, args>>

\* after the messages: latest_message_id? and the part directory
PartsOpen ==
    /\ locals # NoLocals
    /\ locals.pc = "messages"
    /\ locals.i > Len(args.messages)
    /\ locals' =
           IF locals.latest_message_id = <<>>
           THEN [locals EXCEPT !.pc = "returned"]
           ELSE IF parts_dir(locals.latest_message_id[1]) = <<>>
           THEN [locals EXCEPT !.pc = "returned",
                               !.message_id = locals.latest_message_id]
           ELSE [locals EXCEPT !.pc = "parts", !.i = 1,
                               !.message_id = locals.latest_message_id]
    /\ last' = Ret("parts_open", TRUE, <<>>)
    /\ UNCHANGED <<FallbackFrame, args>>

\* one entry of the part directory
PartEntry ==
    /\ locals # NoLocals
    /\ locals.pc = "parts"
    /\ LET dir == parts_dir(locals.message_id[1])[1]
       IN  /\ locals.i <= Len(dir)
           /\ LET file == dir[locals.i]
              IN  locals' =
                      IF extension(file.name) # <<Json>>
                      THEN [locals EXCEPT !.i = @ + 1]
                      ELSE IF ~file.parses
                      THEN [locals EXCEPT !.pc = "returned"]
                      ELSE IF file.type # "text" \/ file.text = <<>>
                      THEN [locals EXCEPT !.i = @ + 1]
                      ELSE [locals EXCEPT
                               !.i = @ + 1,
                               !.parts = Append(@, <<file.start, file.name,
                                                     file.text>>)]
    /\ last' = Ret("part_entry", TRUE, <<>>)
    /\ UNCHANGED <<FallbackFrame, args>>

\* after the parts: the sort and the combined text
FallbackReturn ==
    /\ locals # NoLocals
    /\ locals.pc = "parts"
    /\ locals.i > Len(parts_dir(locals.message_id[1])[1])
    /\ locals' = [locals EXCEPT
                     !.pc = "combined",
                     !.result = IF locals.parts = <<>> THEN <<>>
                                ELSE combine(locals.parts)]
    /\ last' = Ret("fallback_return", TRUE, <<>>)
    /\ UNCHANGED <<FallbackFrame, args>>

FallbackInit ==
    /\ state = "Queued"
    /\ queue = <<>>
    /\ history = <<>>
    /\ cancel_token = NoToken
    /\ running_handle = NoHandle
    /\ explicitly_completed = FALSE
    /\ backend_id = "opencode"
    /\ last_activity = 0
    /\ deliverables = {}
    /\ mission_cmd = [buf |-> <<>>, rx_alive |-> TRUE]
    /\ delivered = <<>>
    /\ now = 0
    /\ files = {}
    /\ args \in [messages : MessageListings, parts : PartListings]
    /\ locals = NoLocals
    /\ tasks = {}
    /\ tripped = {}
    /\ events = <<>>
    /\ nmsgs = 0
    /\ nturns = 0
    /\ started = <<>>
    /\ returned = <<>>
    /\ last = Ret("new", TRUE, <<>>)

FallbackNext ==
    \/ FallbackEnter
    \/ MessageEntry
    \/ PartsOpen
    \/ PartEntry
    \/ FallbackReturn

FallbackSpec == FallbackInit /\ [][FallbackNext]_vars

\* C33 as stated: once the part directory of the selected message has been
\* read, the recovered text (none read as the empty text) is the texts of its
\* text parts joined in the order of their start time and, for equal start
\* times, of their file name, whatever the order of the listing.
C33_RecoversConcatenation ==
    LET dir == parts_dir(locals.message_id[1])[1]
        texts == {dir[i] : i \in {i \in 1..Len(dir) :
                                      /\ extension(dir[i].name) = <<Json>>
                                      /\ dir[i].type = "text"}}
        before(a, b) ==
            \/ a.start < b.start
            \/ a.start = b.start /\ str_cmp(a.name, b.name) = "Less"
        n == Cardinality(texts)
        ordered == CHOOSE o \in [1..n -> texts] :
                       \A i, j \in 1..n : i < j => before(o[i], o[j])
        concat == join([k \in 1..n |-> ordered[k].text])
        recovered == IF locals.result = <<>> THEN <<>> ELSE locals.result[1]
    IN  (locals # NoLocals /\ locals.pc = "combined") => recovered = concat

\* C33: once the part directory of the selected message has been read, the
\* result is the texts of its text parts joined in the order of their start
\* time and, for equal start times, of their file name, whatever the order of
\* the listing, when that text is not blank, and None when it is blank; and
\* the selected message is the newest assistant record of the message
\* directory when exactly one record is the newest.
C33_RecoversInPartOrder ==
    LET dir == parts_dir(locals.message_id[1])[1]
        texts == {dir[i] : i \in {i \in 1..Len(dir) :
                                      /\ extension(dir[i].name) = <<Json>>
                                      /\ dir[i].type = "text"}}
        before(a, b) ==
            \/ a.start < b.start
            \/ a.start = b.start /\ str_cmp(a.name, b.name) = "Less"
        n == Cardinality(texts)
        ordered == CHOOSE o \in [1..n -> texts] :
                       \A i, j \in 1..n : i < j => before(o[i], o[j])
        concat == join([k \in 1..n |-> ordered[k].text])
        records == {args.messages[i] : i \in {i \in 1..Len(args.messages) :
                        /\ extension(args.messages[i].name) = <<Json>>
                        /\ args.messages[i].role = "assistant"}}
        newest == {m \in records : \A o \in records : o.created <= m.created}
    IN  /\ (locals # NoLocals /\ locals.pc = "combined") =>
               locals.result = IF trim_is_empty(concat) THEN <<>>
                               ELSE <<concat>>
        /\ (locals # NoLocals /\ locals.pc \in {"parts", "combined"}) =>
               \A m \in newest : newest = {m} => locals.message_id = m.id

\* the newest message is m1, listed before an older one, and its directory
\* lists b.json before a.json, both with start time 0: the text is "ab"
C33_Witness ==
    /\ locals # NoLocals
    /\ locals.pc = "combined"
    /\ Len(args.messages) = 2
    /\ args.messages[1].id = <<"m1">> /\ args.messages[2].created = 1
    /\ args.parts =
           <<PartFile(FileName("b", Json), TRUE, "text", <<"b">>, 0),
             PartFile(FileName("a", Json), TRUE, "text", <<"a">>, 0)>>
    /\ locals.result = <<(<<"a", "b">>)>>

(* ---------------------------- history context --------------------------- *)
\* build_history_context(history, max_chars).  Strings are sequences of
\* characters, args holds the two arguments and locals the local variables.

\* the most entries in a history
MaxHistory == 2

\* str::to_uppercase
UpperOf ==
    [c \in {LowerCase[k] : k \in 1..Len(LowerCase)} |->
        UpperCase[CHOOSE k \in 1..Len(LowerCase) : LowerCase[k] = c]]
to_uppercase(str) ==
    [i \in 1..Len(str) |->
        IF str[i] \in DOMAIN UpperOf THEN UpperOf[str[i]] ELSE str[i]]

Roles == {<<"u", "s", "e", "r">>,
          <<"a", "s", "s", "i", "s", "t", "a", "n", "t">>}

\* the contents of the entries: of no, two and one character, the last of
\* two bytes
EntryContents == {<<>>, <<"h", "i">>, <<"e_acute">>}

\* the values of max_history_total_chars
Limits == {0, 9, 10, 20, 30}

Histories ==
    UNION {[1..n -> Roles \X EntryContents] : n \in 0..MaxHistory}

\* format!("{}: {}\n\n", role.to_uppercase(), content)
format_entry(role, content) ==
    to_uppercase(role) \o <<":", " ">> \o content \o <<"\n", "\n">>

\* the test that ends the walk (the other definition ends it before the
\* first entry as well)
overflows_always(l, entry, max_chars) ==
    l.total_chars + str_len(entry) > max_chars
overflows(l, entry, max_chars) ==
    l.total_chars + str_len(entry) > max_chars /\ l.result # <<>>

ContextFrame == <<runner, tasks, tripped, events, nmsgs, nturns, started,
                  returned, mission_cmd, delivered, now, files>>

\* the function is entered: the result is empty, the walk starts at the end
ContextEnter ==
    /\ locals = NoLocals
    /\ locals' = [pc |-> "walk", i |-> Len(args.history), result |-> <<>>,
                  total_chars |-> 0]
    /\ last' = Ret("context_enter", TRUE, <<>>)
    /\ UNCHANGED <<ContextFrame, args>>

\* one entry of history.iter().rev(): the break, or the entry put in front
ContextEntry ==
    /\ locals # NoLocals
    /\ locals.pc = "walk"
    /\ locals.i >= 1
    /\ LET entry == format_entry(args.history[locals.i][1],
                                 args.history[locals.i][2])
       IN  locals' =
               IF overflows(locals, entry, args.max_chars)
               THEN [locals EXCEPT !.pc = "returned"]
               ELSE [locals EXCEPT !.i = @ - 1,
                                   !.result = entry \o @,
                                   !.total_chars = @ + str_len(entry)]
    /\ last' = Ret("context_entry", TRUE, <<>>)
    /\ UNCHANGED <<ContextFrame, args>>

\* the walk has passed the first entry
ContextReturn ==
    /\ locals # NoLocals
    /\ locals.pc = "walk"
    /\ locals.i < 1
    /\ locals' = [locals EXCEPT !.pc = "returned"]
    /\ last' = Ret("context_return", TRUE, <<>>)
    /\ UNCHANGED <<ContextFrame, args>>

ContextInit ==
    /\ state = "Queued"
    /\ queue = <<>>
    /\ history = <<>>
    /\ cancel_token = NoToken
    /\ running_handle = NoHandle
    /\ explicitly_completed = FALSE
    /\ backend_id = "opencode"
    /\ last_activity = 0
    /\ deliverables = {}
    /\ mission_cmd = [buf |-> <<>>, rx_alive |-> TRUE]
    /\ delivered = <<>>
    /\ now = 0
    /\ files = {}
    /\ args \in [history : Histories, max_chars : Limits]
    /\ locals = NoLocals
    /\ tasks = {}
    /\ tripped = {}
    /\ events = <<>>
    /\ nmsgs = 0
    /\ nturns = 0
    /\ started = <<>>
    /\ returned = <<>>
    /\ last = Ret("new", TRUE, <<>>)

ContextNext ==
    \/ ContextEnter
    \/ ContextEntry
    \/ ContextReturn

ContextSpec == ContextInit /\ [][ContextNext]_vars

\* C34: the context built from a history is never longer than max_chars, and
\* it is the entries of a most recent part of the history, in the order of
\* the history, the walk having stopped at the first entry from the end that
\* would have made it longer than max_chars.
C34_ContextWithinLimit ==
    (locals # NoLocals /\ locals.pc = "returned") =>
        LET h == args.history
            entries == [k \in 1..Len(h) |-> format_entry(h[k][1], h[k][2])]
            taken == SubSeq(entries, locals.i + 1, Len(h))
        IN  /\ str_len(locals.result) <= args.max_chars
            /\ locals.result = join(taken)
            /\ locals.i >= 1 =>
                   str_len(entries[locals.i]) + str_len(locals.result) >
                       args.max_chars

(* ---------------------- OpenCode listeners cleanup ---------------------- *)
\* The steps of run_opencode_turn around the spawn of the child, for the
\* turns of two missions that execute in one workspace.  locals holds the
\* position of each turn and the processes of the workspace: a process has an
\* owner (a mission, or 0 for a process left behind by an earlier run), may
\* listen on TCP 4096 and is running, exited or killed.

WorkspaceMissions == {1, 2}

Process(owner, listening, status) ==
    [owner |-> owner, listening |-> listening, status |-> status]

\* the shell command of cleanup_opencode_listeners: without lsof nothing
\* happens, with it every process listening on TCP 4096 is sent SIGKILL
cleanup_opencode_listeners(procs, lsof) ==
    IF lsof
    THEN {IF p.status = "running" /\ p.listening
          THEN Process(p.owner, FALSE, "killed") ELSE p : p \in procs}
    ELSE procs

CleanupFrame == <<runner, tasks, tripped, events, nmsgs, nturns, started,
                  returned, mission_cmd, delivered, now, files, args>>

\* the workspace before the turns: with or without a stray listener
WorkspaceEnter ==
    /\ locals = NoLocals
    /\ \E stray \in BOOLEAN :
         locals' = [pc |-> "turns",
                    turn |-> [m \in WorkspaceMissions |-> "idle"],
                    procs |-> IF stray THEN {Process(0, TRUE, "running")}
                              ELSE {}]
    /\ last' = Ret("workspace_enter", TRUE, <<>>)
    /\ UNCHANGED CleanupFrame

\* the turn of mission m reaches the call of cleanup_opencode_listeners
TurnReachesCleanup(m) ==
    /\ locals # NoLocals
    /\ locals.turn[m] = "idle"
    /\ locals' = [locals EXCEPT !.turn[m] = "cleanup"]
    /\ last' = Ret("turn_start", TRUE, <<m>>)
    /\ UNCHANGED CleanupFrame

\* cleanup_opencode_listeners(&workspace_exec, work_dir).await
CleanupListeners(m) ==
    /\ locals # NoLocals
    /\ locals.turn[m] = "cleanup"
    /\ \E lsof \in BOOLEAN :
         locals' = [locals EXCEPT
                       !.turn[m] = "spawn",
                       !.procs = cleanup_opencode_listeners(@, lsof)]
    /\ last' = Ret("cleanup", TRUE, <<m>>)
    /\ UNCHANGED CleanupFrame

\* workspace_exec.spawn_streaming(..): the child, or an error
SpawnChild(m) ==
    /\ locals # NoLocals
    /\ locals.turn[m] = "spawn"
    /\ \E ok \in BOOLEAN :
         locals' = IF ok
                   THEN [locals EXCEPT
                            !.turn[m] = "running",
                            !.procs = @ \cup {Process(m, FALSE, "running")}]
                   ELSE [locals EXCEPT !.turn[m] = "returned"]
    /\ last' = Ret("spawn", TRUE, <<m>>)
    /\ UNCHANGED CleanupFrame

\* the child of mission m starts its server on TCP 4096: the port is free
ServerListens(m) ==
    /\ locals # NoLocals
    /\ Process(m, FALSE, "running") \in locals.procs
    /\ \A p \in locals.procs : ~(p.status = "running" /\ p.listening)
    /\ locals' = [locals EXCEPT
                     !.procs = (@ \ {Process(m, FALSE, "running")})
                                   \cup {Process(m, TRUE, "running")}]
    /\ last' = Ret("listen", TRUE, <<m>>)
    /\ UNCHANGED CleanupFrame

\* the child of mission m exits by itself
ServerExits(m) ==
    /\ locals # NoLocals
    /\ \E p \in locals.procs :
         /\ p.owner = m /\ p.status = "running"
         /\ locals' = [locals EXCEPT
                          !.procs = (@ \ {p})
                                        \cup {Process(m, FALSE, "exited")}]
    /\ last' = Ret("exit", TRUE, <<m>>)
    /\ UNCHANGED CleanupFrame

\* the turn of mission m reads the end of its child's output and returns
TurnReturns(m) ==
    /\ locals # NoLocals
    /\ locals.turn[m] = "running"
    /\ \E p \in locals.procs : p.owner = m /\ p.status # "running"
    /\ locals' = [locals EXCEPT !.turn[m] = "returned"]
    /\ last' = Ret("turn_return", TRUE, <<m>>)
    /\ UNCHANGED CleanupFrame

CleanupInit == Init /\ backend_id = "opencode"

CleanupNext ==
    \/ WorkspaceEnter
    \/ \E m \in WorkspaceMissions :
         \/ TurnReachesCleanup(m)
         \/ CleanupListeners(m)
         \/ SpawnChild(m)
         \/ ServerListens(m)
         \/ ServerExits(m)
         \/ TurnReturns(m)

CleanupSpec == CleanupInit /\ [][CleanupNext]_vars

\* C39: no process that belongs to the turn of a mission is killed by the
\* start of the turn of another mission in the same workspace: the only
\* process the cleanup before a spawn kills is one no turn owns.
C39_NoCrossMissionKill ==
    locals # NoLocals =>
        \A p \in locals.procs : p.status = "killed" => p.owner = 0

(* ------------------------ root agent retry loops ------------------------ *)
\* execute_single_subtask_with_retry and execute_direct_with_retry of
\* RootAgent (src/agents/orchestrator/root.rs).  The two loops differ in the
\* sub-agents they run before the executor and in the data of the result;
\* args holds the function, the RetryConfig and the token of the context,
\* locals the local variables, with the number of runs of the execute step.

\* the greatest max_retries of a RetryConfig
MaxRetries == 2

RetryFunctions == {"execute_single_subtask_with_retry",
                   "execute_direct_with_retry"}

\* AgentContext::is_cancelled: false for a context without a token
is_cancelled(ctx) ==
    ctx.cancel_token # NoToken /\ ctx.cancel_token \in tripped

\* the recommendations of a failure analysis; suggested_model is an Option
RetryRecommendations ==
    {[kind |-> k, suggested_model |-> m] :
         k \in {"UpgradeModel", "TryCheaperModel"},
         m \in {<<>>, <<"other">>}}
    \cup {[kind |-> k, suggested_model |-> <<>>] :
              k \in {"ContinueSameModel", "RequestExtension", "DoNotRetry"}}

\* the test that ends the retries (the other definition never ends them)
retries_unlimited(retry_count, retry_config) == FALSE
retries_exhausted(retry_count, retry_config) ==
    retry_count >= retry_config.max_retries

\* the match on the recommendation: whether the loop goes round again
retries(recommendation, retry_config) ==
    CASE recommendation.kind = "UpgradeModel" ->
             /\ retry_config.allow_model_upgrade
             /\ recommendation.suggested_model # <<>>
      [] recommendation.kind = "TryCheaperModel" -> TRUE
      [] recommendation.kind = "ContinueSameModel" -> TRUE
      [] recommendation.kind = "RequestExtension" -> FALSE
      [] recommendation.kind = "DoNotRetry" -> FALSE

\* task.analysis_mut().selected_model after the match
selected_model(current, recommendation, retry_config) ==
    IF /\ recommendation.suggested_model # <<>>
       /\ \/ /\ recommendation.kind = "UpgradeModel"
             /\ retry_config.allow_model_upgrade
          \/ /\ recommendation.kind = "TryCheaperModel"
             /\ retry_config.allow_model_downgrade
    THEN recommendation.suggested_model
    ELSE current

RetryFrame == <<runner, tasks, events, nmsgs, nturns, started, returned,
                mission_cmd, delivered, now, files>>

\* the function is entered
RetryEnter ==
    /\ locals = NoLocals
    /\ locals' = [pc |-> "loop", retry_count |-> 0, executions |-> 0,
                  selected_model |-> <<>>, retries_exhausted |-> FALSE,
                  result |-> NoResult]
    /\ last' = Ret("retry_enter", TRUE, <<>>)
    /\ UNCHANGED <<RetryFrame, tripped, args>>

\* the owner of the context cancels its token
ContextCancel ==
    /\ tripped = {}
    /\ tripped' = {1}
    /\ last' = Ret("cancel", TRUE, <<>>)
    /\ UNCHANGED <<RetryFrame, args, locals>>

\* the head of the loop: if ctx.is_cancelled() { return failure("Cancelled") }
RetryCheck ==
    /\ locals # NoLocals
    /\ locals.pc = "loop"
    /\ locals' = IF is_cancelled(args)
                 THEN [locals EXCEPT
                          !.pc = "returned",
                          !.result = AgentResultFailure(<<"Cancelled">>, None)]
                 ELSE [locals EXCEPT !.pc = "execute"]
    /\ last' = Ret("retry_check", TRUE, <<>>)
    /\ UNCHANGED <<RetryFrame, tripped, args>>

\* the rest of one round: the sub-agents run, the result is built, and the
\* function returns or the retry is counted
RetryExecute ==
    /\ locals # NoLocals
    /\ locals.pc = "execute"
    /\ \E exec_success \in BOOLEAN, ver_success \in BOOLEAN,
          recommendation \in RetryRecommendations :
         LET success == exec_success /\ ver_success
             result == [success |-> success,
                        output |-> IF ver_success THEN <<"out">>
                                   ELSE <<"out", "Verification failed">>,
                        terminal_reason |-> None]
             l == [locals EXCEPT !.executions = @ + 1]
         IN  locals' =
                 IF success
                 THEN [l EXCEPT !.pc = "returned", !.result = result]
                 ELSE IF retries_exhausted(locals.retry_count, args)
                 THEN [l EXCEPT !.pc = "returned", !.result = result,
                                !.retries_exhausted = TRUE]
                 ELSE IF ~retries(recommendation, args)
                 THEN [l EXCEPT !.pc = "returned", !.result = result]
                 ELSE [l EXCEPT
                          !.pc = "loop",
                          !.selected_model =
                              selected_model(@, recommendation, args),
                          !.retry_count = @ + 1]
    /\ last' = Ret("retry_execute", TRUE, <<>>)
    /\ UNCHANGED <<RetryFrame, tripped, args>>

RetryInit ==
    /\ state = "Queued"
    /\ queue = <<>>
    /\ history = <<>>
    /\ cancel_token = NoToken
    /\ running_handle = NoHandle
    /\ explicitly_completed = FALSE
    /\ backend_id = "opencode"
    /\ last_activity = 0
    /\ deliverables = {}
    /\ mission_cmd = [buf |-> <<>>, rx_alive |-> TRUE]
    /\ delivered = <<>>
    /\ now = 0
    /\ files = {}
    /\ args \in [function : RetryFunctions, max_retries : 0..MaxRetries,
                 allow_model_upgrade : BOOLEAN,
                 allow_model_downgrade : BOOLEAN,
                 cancel_token : {NoToken, 1}]
    /\ locals = NoLocals
    /\ tasks = {}
    /\ tripped = {}
    /\ events = <<>>
    /\ nmsgs = 0
    /\ nturns = 0
    /\ started = <<>>
    /\ returned = <<>>
    /\ last = Ret("new", TRUE, <<>>)

RetryNext ==
    \/ RetryEnter
    \/ ContextCancel
    \/ RetryCheck
    \/ RetryExecute

RetrySpec == RetryInit /\ [][RetryNext]_vars

\* C40: each retry loop of the root agent runs its execute step at most
\* max_retries + 1 times: a round that does not return counts one retry more,
\* the count never passes max_retries, and the round with the last retry
\* returns; and a round that starts with the token of the context tripped
\* returns the failure "Cancelled" without running the execute step.
C40_RetryLoopsTerminate ==
    [][locals # NoLocals =>
           /\ locals'.executions <= args.max_retries + 1
           /\ locals'.retry_count <= args.max_retries
           /\ locals'.pc = "loop" => locals'.executions = locals'.retry_count
           /\ (locals.pc = "execute" /\ locals'.pc = "loop") =>
                  locals'.retry_count = locals.retry_count + 1
           /\ locals'.executions = args.max_retries + 1 =>
                  locals'.pc = "returned"
           /\ (locals.pc = "loop" /\ is_cancelled(args)
               /\ last'.op = "retry_check") =>
                  /\ locals'.pc = "returned"
                  /\ locals'.result = AgentResultFailure(<<"Cancelled">>, None)
                  /\ locals'.executions = locals.executions]_vars

\* with max_retries = 2 the execute step ran twice and failed, and the third
\* round found the token tripped: the function returned "Cancelled"
C40_Witness ==
    /\ locals # NoLocals
    /\ args.max_retries = 2
    /\ locals.pc = "returned"
    /\ locals.executions = 2
    /\ locals.retry_count = 2
    /\ locals.result.output = <<"Cancelled">>

====
